---- MODULE Spec2Model ----
(***************************************************************************)
(* A model of core/block.js of ocaml-blockly: the block graph (parent /    *)
(* child tree, connections, top-level set, identity table), block          *)
(* disposal and unplugging, the scope resolver (resolveReference) and the  *)
(* type inference of the typed blocks (infer, clearTypes).                 *)
(*                                                                         *)
(* Blockly.Connection, Blockly.Input, Blockly.Workspace, Blockly.Events,   *)
(* the bound-variable classes and the type expressions are not part of     *)
(* core/block.js; the definitions that stand for them follow the           *)
(* specification's description of their contracts.                         *)
(***************************************************************************)
EXTENDS Integers, Sequences, FiniteSets, TLC

\* Number of block objects that may be constructed in one behaviour.
MaxBlocks == 3

\* The block objects: those structural edits construct, and one more for
\* the behaviours that walk a pair of trees.
Blocks == 1 .. (MaxBlocks + 1)

\* The null block reference.
Nil == 0

\* ------------------------------------------------------------------------
\* Block prototypes (the type tag selects init and getVisibleVariables).
\* ------------------------------------------------------------------------

\* Untyped blocks: configurations of setPreviousStatement, setNextStatement,
\* setOutput, appendStatementInput and appendValueInput.  stmt_chk carries
\* nominal checks on its statement connections.
StmtProtos == {"stmt_any", "stmt_chk", "controls"}

ValueProtos == {"value"}

\* Typed blocks defined in block.js that take part in scope resolution.
ScopeProtos == {"let_typed", "lambda_typed", "variables_get_typed"}

\* Typed blocks defined in block.js that take part in type inference.
InferProtos ==
  {"int_typed", "int_arithmetic_typed", "logic_compare_typed",
   "pair_create_typed", "pair_first_typed", "variables_get_typed", "let_typed"}

\* Typed blocks defined in block.js whose connections carry a nominal check
\* and a literal type.
CheckedProtos == {"logic_boolean_typed", "int_arithmetic_typed"}

Protos ==
  StmtProtos \cup ValueProtos \cup ScopeProtos \cup InferProtos
    \cup CheckedProtos

\* Variable names a bound-variable field may carry.
Names == {"x", "y"}

NoName == "-"

\* setOutput(true) is called by the initializer.
hasOutput(t) ==
  t \in ScopeProtos \cup ValueProtos \cup InferProtos \cup CheckedProtos

\* setPreviousStatement(true, ...) is called by the initializer.
hasPrevious(t) == t \in StmtProtos

\* setNextStatement(true, ...) is called by the initializer.
hasNext(t) == t \in StmtProtos

\* The names of the Inputs appended by the initializer, in order.
initInputs(t) ==
  CASE t = "controls" -> <<"COND", "DO">>
    [] t = "let_typed" -> <<"VARIABLE", "EXP1", "EXP2">>
    [] t = "lambda_typed" -> <<"DUMMY", "RETURN">>
    [] t = "variables_get_typed" -> <<"DUMMY">>
    [] t = "int_typed" -> <<"DUMMY">>
    [] t = "logic_boolean_typed" -> <<"DUMMY">>
    [] t = "int_arithmetic_typed" -> <<"A", "B">>
    [] t = "logic_compare_typed" -> <<"A", "B">>
    [] t = "pair_create_typed" -> <<"FIRST", "SECOND", "DUMMY">>
    [] t = "pair_first_typed" -> <<"FIRST", "DUMMY">>
    [] OTHER -> <<>>

\* Inputs that carry no connection (appendDummyInput).
DummyInputs == {"VARIABLE", "DUMMY", "dummy A", "dummy B"}

\* Inputs that carry a NEXT_STATEMENT connection (appendStatementInput).
StatementInputs == {"DO"}

\* Inputs that carry an INPUT_VALUE connection (appendValueInput).
ValueInputs == {"COND", "EXP1", "EXP2", "RETURN", "A", "B", "FIRST", "SECOND"}

InputNames == DummyInputs \cup StatementInputs \cup ValueInputs

\* A Connection is identified by its source block and the slot it occupies:
\* the block's outputConnection, previousConnection, nextConnection or the
\* connection of the Input of that name.
Slots == {"OUT", "PREV", "NEXT"} \cup StatementInputs \cup ValueInputs

Conns == Blocks \X Slots

\* The null connection reference.
NoConn == <<Nil, "none">>

getSourceBlock(c) == c[1]

\* Connection kinds (Blockly.OUTPUT_VALUE, INPUT_VALUE, PREVIOUS_STATEMENT,
\* NEXT_STATEMENT).
connType(c) ==
  CASE c[2] = "OUT" -> "OUTPUT_VALUE"
    [] c[2] = "PREV" -> "PREVIOUS_STATEMENT"
    [] c[2] = "NEXT" -> "NEXT_STATEMENT"
    [] c[2] \in StatementInputs -> "NEXT_STATEMENT"
    [] OTHER -> "INPUT_VALUE"

\* Output and Previous connections are the superior (plug) side.
isSuperior(c) == c[2] \in {"OUT", "PREV"}

\* The nominal check of a connection: a set of type tags, or {} for the
\* unconstrained (null) check.
checkOf(t, slot) ==
  CASE t = "stmt_chk" /\ slot = "PREV" -> {"A"}
    [] t = "stmt_chk" /\ slot = "NEXT" -> {"B"}
    [] t = "int_typed" /\ slot = "OUT" -> {"Int"}
    [] t = "int_arithmetic_typed" /\ slot \in {"OUT", "A", "B"} -> {"Int"}
    [] t = "logic_compare_typed" /\ slot = "OUT" -> {"Boolean"}
    [] t = "logic_boolean_typed" /\ slot = "OUT" -> {"Boolean"}
    [] OTHER -> {}

\* The connections the initializer of a block of type t creates on block b.
initConnections(b, t) ==
  (IF hasOutput(t) THEN {<<b, "OUT">>} ELSE {})
    \cup (IF hasPrevious(t) THEN {<<b, "PREV">>} ELSE {})
    \cup (IF hasNext(t) THEN {<<b, "NEXT">>} ELSE {})
    \cup {<<b, initInputs(t)[i]>> : i \in {j \in DOMAIN initInputs(t) :
                                           initInputs(t)[j] \notin DummyInputs}}

\* Identities: an id supplied by the caller, or one generated for the block.
UserIds == {<<"user", "u">>}

NoId == <<"none", "-">>

genUid(b) == <<"gen", ToString(b)>>

Ids == UserIds \cup {genUid(b) : b \in Blocks}

\* ------------------------------------------------------------------------
\* Type expressions (collaborator)
\* ------------------------------------------------------------------------
\* A type expression is a tuple: a nullary constructor, a binary constructor
\* with its two components, or a type variable named after the block whose
\* initializer generated it and the letter the initializer calls it.
TVarNames == {"A", "B"}

TVars == Blocks \X TVarNames

\* No type expression (null); also the val of an unbound type variable.
NoType == <<"NONE">>

INT == <<"INT">>

BOOL == <<"BOOL">>

PAIR(first_type, second_type) == <<"PAIR", first_type, second_type>>

FUN(arg_type, return_type) == <<"FUN", arg_type, return_type>>

TVar(b, n) == <<"VAR", b, n>>

isTypeVar(t) == t[1] = "VAR"

\* The type variables generated by the initializer (generateTypeVar).
initTypeVars(t) ==
  CASE t \in {"logic_compare_typed", "variables_get_typed"} -> {"A"}
    [] t \in {"pair_create_typed", "pair_first_typed", "let_typed",
              "lambda_typed"} -> {"A", "B"}
    [] OTHER -> {}

\* ------------------------------------------------------------------------
\* State
\* ------------------------------------------------------------------------
VARIABLES
  type,              \* this.type, "none" while the block is not constructed
  id,                \* this.id
  varName,           \* the name carried by the block's bound-variable field
  isShadow_,         \* this.isShadow_
  workspace,         \* this.workspace is non-null
  blockDB,           \* workspace.blockDB_: id -> block
  topBlocks,         \* the workspace's top-level block set
  parentBlock_,      \* this.parentBlock_
  childBlocks_,      \* this.childBlocks_
  inputList,         \* this.inputList (the Inputs' names, in order)
  targetConnection,  \* Connection.targetConnection
  connectionDB,      \* the registered (created, not disposed) Connections
  boundValue,        \* the Value a block's Reference is bound to (the
                     \* declaring block), Nil when unresolved
  values,            \* blocks whose typedValue['VAR'] exists and is not disposed
  fired,             \* number of BlockDelete notifications delivered per block
  disabled_,         \* Blockly.Events.disabled_ (nesting depth of disable)
  tval,              \* the binding of each type variable (its val), NoType
                     \* while the variable is unbound
  typeExprAt,        \* connection.typeExpr, as the connection the expression
                     \* was created for by its initializer
  last               \* the last operation called, its arguments and outcome

vars == <<type, id, varName, isShadow_, workspace, blockDB, topBlocks,
          parentBlock_, childBlocks_, inputList, targetConnection,
          connectionDB, boundValue, values, fired, disabled_, tval,
          typeExprAt, last>>

\* The mutable object graph as one record, so that handlers compose.
\* delivered lists the notifications a listener receives during the call,
\* each with the graph as the listener finds it on delivery.
Cur ==
  [workspace |-> workspace, blockDB |-> blockDB, topBlocks |-> topBlocks,
   parentBlock_ |-> parentBlock_, childBlocks_ |-> childBlocks_,
   inputList |-> inputList, targetConnection |-> targetConnection,
   connectionDB |-> connectionDB, boundValue |-> boundValue,
   values |-> values, fired |-> fired, disabled_ |-> disabled_,
   typeExprAt |-> typeExprAt, delivered |-> <<>>, err |-> "none"]

\* The graph after a handler has run is s.
Commit(s) ==
  /\ workspace' = s.workspace
  /\ blockDB' = s.blockDB
  /\ topBlocks' = s.topBlocks
  /\ parentBlock_' = s.parentBlock_
  /\ childBlocks_' = s.childBlocks_
  /\ inputList' = s.inputList
  /\ targetConnection' = s.targetConnection
  /\ connectionDB' = s.connectionDB
  /\ boundValue' = s.boundValue
  /\ values' = s.values
  /\ fired' = s.fired
  /\ disabled_' = s.disabled_

\* An exception is propagating: the rest of the handler is skipped.
Thrown(s) == s.err # "none"

Throw(s, e) == [s EXCEPT !.err = e]

NoLast ==
  [op |-> "none", flag |-> FALSE, previousTarget |-> NoConn,
   nextBlock |-> Nil, count |-> 0, result |-> FALSE, block |-> Nil,
   err |-> "none"]

\* last records a call that changed the graph or raised; a call that did
\* neither leaves no trace, except a dispose of a block that is already
\* disposed and a resolveReference without binding, which are recorded as
\* such.
Record(s, entry) ==
  last' = IF s = Cur THEN last ELSE entry

\* ------------------------------------------------------------------------
\* Sequence helpers
\* ------------------------------------------------------------------------
Range(q) == {q[i] : i \in DOMAIN q}

\* goog.array.remove: removes the first occurrence of x, if any.
ArrayRemove(q, x) ==
  IF x \notin Range(q) THEN q
  ELSE LET k == CHOOSE i \in DOMAIN q : q[i] = x /\ \A j \in 1 .. (i - 1) : q[j] # x
       IN [i \in 1 .. (Len(q) - 1) |-> IF i < k THEN q[i] ELSE q[i + 1]]

\* ------------------------------------------------------------------------
\* Block accessors
\* ------------------------------------------------------------------------
outputConnection(b) == IF hasOutput(type[b]) THEN <<b, "OUT">> ELSE NoConn

previousConnection(b) == IF hasPrevious(type[b]) THEN <<b, "PREV">> ELSE NoConn

nextConnection(b) == IF hasNext(type[b]) THEN <<b, "NEXT">> ELSE NoConn

\* The connection of the Input called name (null for a dummy input).
inputConnection(b, name) == IF name \in DummyInputs THEN NoConn ELSE <<b, name>>

\* The type expression the initializer puts on the output connection
\* (setOutputTypeExpr).
\* setOutputTypeExpr with the literal typed Bool, as logic_boolean_typed is.
setOutputTypeExprIntAsBool(b) ==
  CASE type[b] = "int_arithmetic_typed" -> INT
    [] type[b] \in {"int_typed", "logic_compare_typed",
                    "logic_boolean_typed"} -> BOOL
    [] type[b] = "pair_create_typed" -> PAIR(TVar(b, "A"), TVar(b, "B"))
    [] type[b] \in {"pair_first_typed", "variables_get_typed"} -> TVar(b, "A")
    [] type[b] = "let_typed" -> TVar(b, "B")
    [] type[b] = "lambda_typed" -> FUN(TVar(b, "A"), TVar(b, "B"))
    [] OTHER -> NoType

setOutputTypeExpr(b) ==
  CASE type[b] \in {"int_typed", "int_arithmetic_typed"} -> INT
    [] type[b] \in {"logic_compare_typed", "logic_boolean_typed"} -> BOOL
    [] type[b] = "pair_create_typed" -> PAIR(TVar(b, "A"), TVar(b, "B"))
    [] type[b] \in {"pair_first_typed", "variables_get_typed"} -> TVar(b, "A")
    [] type[b] = "let_typed" -> TVar(b, "B")
    [] type[b] = "lambda_typed" -> FUN(TVar(b, "A"), TVar(b, "B"))
    [] OTHER -> NoType

\* The type expression the initializer puts on the connection of the Input
\* called name (setTypeExpr).
setTypeExpr(b, name) ==
  CASE type[b] = "int_arithmetic_typed" /\ name \in {"A", "B"} -> INT
    [] type[b] = "logic_compare_typed" /\ name \in {"A", "B"} -> TVar(b, "A")
    [] type[b] = "pair_create_typed" /\ name = "FIRST" -> TVar(b, "A")
    [] type[b] = "pair_create_typed" /\ name = "SECOND" -> TVar(b, "B")
    [] type[b] = "pair_first_typed" /\ name = "FIRST" ->
         PAIR(TVar(b, "A"), TVar(b, "B"))
    [] type[b] = "let_typed" /\ name = "EXP1" -> TVar(b, "A")
    [] type[b] = "let_typed" /\ name = "EXP2" -> TVar(b, "B")
    [] type[b] = "lambda_typed" /\ name = "RETURN" -> TVar(b, "B")
    [] OTHER -> NoType

\* The type expression the initializer creates for connection c.
initTypeExpr(c) ==
  IF c[2] = "OUT" THEN setOutputTypeExpr(c[1]) ELSE setTypeExpr(c[1], c[2])

\* connection.typeExpr: the type expression connection c holds now.
typeExpr(s, c) ==
  IF c \in Conns THEN initTypeExpr(s.typeExprAt[c]) ELSE NoType

\* block.outputConnection.typeExpr
outputTypeExpr(s, b) == typeExpr(s, <<b, "OUT">>)

\* block.getInput(name).connection.typeExpr
inputTypeExpr(s, b, name) == typeExpr(s, <<b, name>>)

\* Bound on the length of a chain of type variable links and on the depth
\* of a type expression.
TypeDepth == 2 * (MaxBlocks + 1)

\* The representative of t: follow the vals of bound type variables.
RECURSIVE derefWithin(_, _, _)
derefWithin(tv, t, n) ==
  IF isTypeVar(t) /\ tv[<<t[2], t[3]>>] # NoType /\ n > 0
    THEN derefWithin(tv, tv[<<t[2], t[3]>>], n - 1)
    ELSE t

deref(tv, t) == derefWithin(tv, t, TypeDepth)

\* resolve(node): the representative with its components resolved; an
\* unbound type variable resolves to itself.
RECURSIVE resolveWithin(_, _, _)
resolveWithin(tv, t, n) ==
  IF Len(deref(tv, t)) = 1 \/ isTypeVar(deref(tv, t)) \/ n = 0 THEN deref(tv, t)
  ELSE <<deref(tv, t)[1],
         resolveWithin(tv, deref(tv, t)[2], n - 1),
         resolveWithin(tv, deref(tv, t)[3], n - 1)>>

resolve(tv, t) == resolveWithin(tv, t, TypeDepth)

\* The outcome of a unification: the vals afterwards and whether the two
\* expressions were unified without a mismatch.
Unified(tv) == [tv |-> tv, ok |-> TRUE]

Mismatch(tv) == [tv |-> tv, ok |-> FALSE]

RECURSIVE unifyWithin(_, _, _, _)

\* The second components are unified after the first, unless the first
\* were a mismatch.
unifySecond(r, a, b, n) ==
  IF r.ok THEN unifyWithin(r.tv, a[3], b[3], n) ELSE r

\* unify that does not link two unbound type variables.
unifyWithinForgetsLink(tv, a, b, n) ==
  IF deref(tv, a) = deref(tv, b) THEN Unified(tv)
  ELSE IF isTypeVar(deref(tv, a)) /\ isTypeVar(deref(tv, b)) THEN Unified(tv)
  ELSE IF isTypeVar(deref(tv, a))
    THEN Unified([tv EXCEPT ![<<deref(tv, a)[2], deref(tv, a)[3]>>] = deref(tv, b)])
  ELSE IF isTypeVar(deref(tv, b))
    THEN Unified([tv EXCEPT ![<<deref(tv, b)[2], deref(tv, b)[3]>>] = deref(tv, a)])
  ELSE IF deref(tv, a)[1] # deref(tv, b)[1] \/ Len(deref(tv, a)) = 1 \/ n = 0
    THEN Mismatch(tv)
  ELSE unifySecond(unifyWithin(tv, deref(tv, a)[2], deref(tv, b)[2], n - 1),
                   deref(tv, a), deref(tv, b), n - 1)

\* unify that reports a mismatch when the two expressions are unified
\* already.
unifyWithinFailsWhenUnified(tv, a, b, n) ==
  IF deref(tv, a) = deref(tv, b) THEN Mismatch(tv)
  ELSE IF isTypeVar(deref(tv, a))
    THEN Unified([tv EXCEPT ![<<deref(tv, a)[2], deref(tv, a)[3]>>] =
                              deref(tv, b)])
  ELSE IF isTypeVar(deref(tv, b))
    THEN Unified([tv EXCEPT ![<<deref(tv, b)[2], deref(tv, b)[3]>>] =
                              deref(tv, a)])
  ELSE IF deref(tv, a)[1] # deref(tv, b)[1] \/ Len(deref(tv, a)) = 1 \/ n = 0
    THEN Mismatch(tv)
  ELSE unifySecond(unifyWithin(tv, deref(tv, a)[2], deref(tv, b)[2], n - 1),
                   deref(tv, a), deref(tv, b), n - 1)

\* a.unify(b): an unbound variable is linked to the other representative
\* (the receiver to the argument when both are unbound); two constructors
\* are unified component by component when their heads match and are a
\* mismatch otherwise, which leaves the vals as they are at that point.
unifyWithin(tv, a, b, n) ==
  IF deref(tv, a) = deref(tv, b) THEN Unified(tv)
  ELSE IF isTypeVar(deref(tv, a))
    THEN Unified([tv EXCEPT ![<<deref(tv, a)[2], deref(tv, a)[3]>>] =
                              deref(tv, b)])
  ELSE IF isTypeVar(deref(tv, b))
    THEN Unified([tv EXCEPT ![<<deref(tv, b)[2], deref(tv, b)[3]>>] =
                              deref(tv, a)])
  ELSE IF deref(tv, a)[1] # deref(tv, b)[1] \/ Len(deref(tv, a)) = 1 \/ n = 0
    THEN Mismatch(tv)
  ELSE unifySecond(unifyWithin(tv, deref(tv, a)[2], deref(tv, b)[2], n - 1),
                   deref(tv, a), deref(tv, b), n - 1)

unify(tv, a, b) == unifyWithin(tv, a, b, TypeDepth)

\* clear(): the type variable is unbound again.
clear(tv, b, n) == [tv EXCEPT ![<<b, n>>] = NoType]

\* ------------------------------------------------------------------------
\* Workspace (collaborator): top-level block set
\* ------------------------------------------------------------------------
addTopBlock(s, b) == [s EXCEPT !.topBlocks = @ \cup {b}]

removeTopBlock(s, b) == [s EXCEPT !.topBlocks = @ \ {b}]

\* ------------------------------------------------------------------------
\* Connection (collaborator)
\* ------------------------------------------------------------------------
isConnected(s, c) == s.targetConnection[c] # NoConn

targetBlock(s, c) == getSourceBlock(s.targetConnection[c])

\* Nominal compatibility: the check sets intersect or either is unconstrained.
checkType_(c, d) ==
  LET cc == checkOf(type[c[1]], c[2])
      cd == checkOf(type[d[1]], d[2])
  IN cc = {} \/ cd = {} \/ cc \cap cd # {}

\* Complementary kinds: Output with Value-Input, Previous with Next.
Complementary(c, d) ==
  {connType(c), connType(d)} \in {{"OUTPUT_VALUE", "INPUT_VALUE"},
                                  {"PREVIOUS_STATEMENT", "NEXT_STATEMENT"}}

\* canConnect that looks at the kinds and at the targets only.
canConnectIgnoresTypes(s, c, d) ==
  /\ getSourceBlock(c) # getSourceBlock(d)
  /\ Complementary(c, d)
  /\ s.targetConnection[c] \in {NoConn, d}
  /\ s.targetConnection[d] \in {NoConn, c}

canConnect(s, c, d) ==
  /\ getSourceBlock(c) # getSourceBlock(d)
  /\ Complementary(c, d)
  /\ s.targetConnection[c] \in {NoConn, d}
  /\ s.targetConnection[d] \in {NoConn, c}
  /\ checkType_(c, d)
  /\ typeExpr(s, c) # NoType /\ typeExpr(s, d) # NoType
       => unify(tval, typeExpr(s, c), typeExpr(s, d)).ok

\* Set parent of block b to newParent (a block or Nil).
setParentMissingRemove(s, b, newParent) ==
  IF Thrown(s) THEN s
  ELSE IF newParent = s.parentBlock_[b] THEN s
  ELSE LET old == s.parentBlock_[b]
           s1 == IF old # Nil THEN [s EXCEPT !.parentBlock_[b] = Nil]
                 ELSE removeTopBlock(s, b)
           s2 == [s1 EXCEPT !.parentBlock_[b] = newParent]
       IN IF newParent # Nil
            THEN [s2 EXCEPT !.childBlocks_[newParent] = Append(@, b)]
            ELSE addTopBlock(s2, b)

\* setParent without the removal from the workspace's top-level set.
setParentKeepsTop(s, b, newParent) ==
  IF Thrown(s) THEN s
  ELSE IF newParent = s.parentBlock_[b] THEN s
  ELSE LET old == s.parentBlock_[b]
           s1 == IF old # Nil
                   THEN [s EXCEPT !.childBlocks_[old] = ArrayRemove(@, b),
                                  !.parentBlock_[b] = Nil]
                   ELSE s
           s2 == [s1 EXCEPT !.parentBlock_[b] = newParent]
       IN IF newParent # Nil
            THEN [s2 EXCEPT !.childBlocks_[newParent] = Append(@, b)]
            ELSE addTopBlock(s2, b)

\* setParent without the checks of the previous and output connections.
setParentUnchecked(s, b, newParent) ==
  IF Thrown(s) THEN s
  ELSE IF newParent = s.parentBlock_[b] THEN s
  ELSE LET old == s.parentBlock_[b]
           s1 == IF old # Nil
                   THEN [s EXCEPT !.childBlocks_[old] = ArrayRemove(@, b),
                                  !.parentBlock_[b] = Nil]
                   ELSE removeTopBlock(s, b)
           s2 == [s1 EXCEPT !.parentBlock_[b] = newParent]
       IN IF newParent # Nil
            THEN [s2 EXCEPT !.childBlocks_[newParent] = Append(@, b)]
            ELSE addTopBlock(s2, b)

setParent(s, b, newParent) ==
  IF Thrown(s) THEN s
  ELSE IF newParent = s.parentBlock_[b] THEN s
  ELSE LET old == s.parentBlock_[b]
           finish(u) ==
             LET u1 == [u EXCEPT !.parentBlock_[b] = newParent]
             IN IF newParent # Nil
                  THEN [u1 EXCEPT !.childBlocks_[newParent] = Append(@, b)]
                  ELSE IF ~u1.workspace[b]
                         THEN Throw(u1, "TypeError")
                         ELSE addTopBlock(u1, b)
       IN IF old # Nil
            THEN LET s1 == [s EXCEPT !.childBlocks_[old] = ArrayRemove(@, b)]
                 IN IF previousConnection(b) # NoConn
                         /\ isConnected(s1, previousConnection(b))
                      THEN Throw(s1, "Still connected to previous block.")
                      ELSE IF outputConnection(b) # NoConn
                                /\ isConnected(s1, outputConnection(b))
                             THEN Throw(s1, "Still connected to parent block.")
                             ELSE finish([s1 EXCEPT !.parentBlock_[b] = Nil])
            ELSE IF ~s.workspace[b]
                   THEN Throw(s, "TypeError")
                   ELSE finish(removeTopBlock(s, b))

\* disconnect() that clears the target of the called connection only.
disconnectOneSided(s, c) ==
  IF Thrown(s) THEN s
  ELSE IF ~isConnected(s, c) THEN Throw(s, "Source connection not connected.")
  ELSE setParent([s EXCEPT !.targetConnection[c] = NoConn],
                 IF isSuperior(c) THEN getSourceBlock(c)
                 ELSE getSourceBlock(s.targetConnection[c]),
                 Nil)

\* disconnect(): both connections lose their target and the block owning the
\* superior connection is detached from its parent.
disconnect(s, c) ==
  IF Thrown(s) THEN s
  ELSE IF ~isConnected(s, c) THEN Throw(s, "Source connection not connected.")
  ELSE LET o == s.targetConnection[c]
           child == IF isSuperior(c) THEN getSourceBlock(c) ELSE getSourceBlock(o)
           s1 == [s EXCEPT !.targetConnection =
                             [x \in Conns |-> IF x \in {c, o} THEN NoConn ELSE @[x]]]
       IN setParent(s1, child, Nil)

\* connect(other): links only if canConnect holds; the block owning the
\* superior connection becomes a child of the block owning the inferior one.
connect(s, c, d) ==
  IF Thrown(s) THEN s
  ELSE IF ~canConnect(s, c, d) THEN s
  ELSE LET sup == IF isSuperior(c) THEN c ELSE d
           inf == IF isSuperior(c) THEN d ELSE c
           s1 == [s EXCEPT !.targetConnection =
                             [x \in Conns |-> IF x = c THEN d
                                              ELSE IF x = d THEN c ELSE @[x]]]
       IN setParent(s1, getSourceBlock(sup), getSourceBlock(inf))

\* Connection.dispose(): fails loudly if still connected, else unregisters.
connectionDispose(s, c) ==
  IF Thrown(s) THEN s
  ELSE IF isConnected(s, c) THEN Throw(s, "Disconnect connection before disposing.")
  ELSE [s EXCEPT !.connectionDB = @ \ {c}]

\* Input.dispose(): disposes the Input's connection, if it has one.
inputDispose(s, b, name) ==
  IF inputConnection(b, name) = NoConn THEN s
  ELSE connectionDispose(s, inputConnection(b, name))

\* ------------------------------------------------------------------------
\* Block: tree queries
\* ------------------------------------------------------------------------
\* The next statement block directly connected to block b, or Nil.
getNextBlock(s, b) ==
  IF nextConnection(b) = NoConn THEN Nil ELSE targetBlock(s, nextConnection(b))

\* The connection above block b that unplug(b) remembers before detaching.
previousTargetOf(s, b) ==
  IF outputConnection(b) = NoConn /\ previousConnection(b) # NoConn
    THEN s.targetConnection[previousConnection(b)]
    ELSE NoConn

\* Output, previous and next connections, then the Inputs' connections.
getConnections_(s, b) ==
  LET own == SelectSeq(<<outputConnection(b), previousConnection(b),
                         nextConnection(b)>>, LAMBDA c : c # NoConn)
      ins == [i \in DOMAIN s.inputList[b] |-> inputConnection(b, s.inputList[b][i])]
  IN own \o SelectSeq(ins, LAMBDA c : c # NoConn)

\* Blocks reachable from b through childBlocks_ in at most n steps (b included).
RECURSIVE ReachWithin(_, _, _)
ReachWithin(s, B, n) ==
  IF n = 0 THEN B
  ELSE LET step == B \cup UNION {Range(s.childBlocks_[x]) : x \in B}
       IN IF step = B THEN B ELSE ReachWithin(s, step, n - 1)

\* All blocks directly or indirectly nested inside b, b included.
getDescendants(s, b) == ReachWithin(s, {b}, MaxBlocks)

\* What a call that never returns yields.
Diverges == 0 - 1

\* The do/while loop of getRootBlock with n iterations left; on a cyclic
\* parent chain the loop never ends.
RECURSIVE getRootBlockWithin(_, _, _)
getRootBlockWithin(s, rootBlock, n) ==
  IF s.parentBlock_[rootBlock] = Nil THEN rootBlock
  ELSE IF n = 0 THEN Diverges
  ELSE getRootBlockWithin(s, s.parentBlock_[rootBlock], n - 1)

\* The top-most block in the tree of block b.  A parent chain without a
\* cycle has at most MaxBlocks links.
getRootBlock(s, b) == getRootBlockWithin(s, b, MaxBlocks + 1)

\* ------------------------------------------------------------------------
\* Block.prototype.unplug
\* ------------------------------------------------------------------------
\* The statement branch of unplug once the previous connection has been
\* disconnected: with healStack and a next block, disconnect the next
\* statement and attach it to previousTarget if the checks allow.
\* The statement branch healing the stack whether or not it was asked to.
unplugHealIgnoresFlag(s, b, previousTarget, opt_healStack) ==
  IF Thrown(s) THEN s
  ELSE IF getNextBlock(s, b) # Nil
    THEN IF previousTarget # NoConn
              /\ checkType_(previousTarget, s.targetConnection[nextConnection(b)])
           THEN connect(disconnect(s, s.targetConnection[nextConnection(b)]),
                        previousTarget, s.targetConnection[nextConnection(b)])
           ELSE disconnect(s, s.targetConnection[nextConnection(b)])
    ELSE s

unplugHeal(s, b, previousTarget, opt_healStack) ==
  IF Thrown(s) THEN s
  ELSE IF opt_healStack /\ getNextBlock(s, b) # Nil
    THEN IF previousTarget # NoConn
              /\ checkType_(previousTarget, s.targetConnection[nextConnection(b)])
           THEN connect(disconnect(s, s.targetConnection[nextConnection(b)]),
                        previousTarget, s.targetConnection[nextConnection(b)])
           ELSE disconnect(s, s.targetConnection[nextConnection(b)])
    ELSE s

\* unplug that detaches the next statement but never reattaches it.
unplugNeverReconnects(s, b, opt_healStack) ==
  IF Thrown(s) THEN s
  ELSE IF outputConnection(b) # NoConn
    THEN IF isConnected(s, outputConnection(b))
           THEN disconnect(s, outputConnection(b))
           ELSE s
  ELSE IF previousConnection(b) # NoConn
    THEN IF isConnected(s, previousConnection(b))
           THEN unplugHeal(disconnect(s, previousConnection(b)), b, NoConn,
                           opt_healStack)
           ELSE unplugHeal(s, b, NoConn, opt_healStack)
  ELSE s

unplug(s, b, opt_healStack) ==
  IF Thrown(s) THEN s
  ELSE IF outputConnection(b) # NoConn
    THEN IF isConnected(s, outputConnection(b))
           THEN disconnect(s, outputConnection(b))
           ELSE s
  ELSE IF previousConnection(b) # NoConn
    THEN IF isConnected(s, previousConnection(b))
           THEN unplugHeal(disconnect(s, previousConnection(b)), b,
                           s.targetConnection[previousConnection(b)], opt_healStack)
           ELSE unplugHeal(s, b, NoConn, opt_healStack)
  ELSE s

\* ------------------------------------------------------------------------
\* Block.prototype.dispose
\* ------------------------------------------------------------------------
\* BoundVariableValue.dispose(): the Value is gone and every Reference bound
\* to it becomes unresolved.
valueDispose(s, b) ==
  IF Thrown(s) THEN s
  ELSE [s EXCEPT !.values = @ \ {b},
                 !.boundValue = [r \in Blocks |-> IF @[r] = b THEN Nil ELSE @[r]]]

\* for (i = 0; input = this.inputList[i]; i++) input.dispose();
RECURSIVE disposeInputs(_, _, _)
disposeInputs(s, b, i) ==
  IF Thrown(s) \/ i > Len(s.inputList[b]) THEN s
  ELSE disposeInputs(inputDispose(s, b, s.inputList[b][i]), b, i + 1)

\* this.inputList.length = 0;
clearInputList(s, b) ==
  IF Thrown(s) THEN s ELSE [s EXCEPT !.inputList[b] = <<>>]

\* if (connection.isConnected()) connection.disconnect();
disconnectIfConnected(s, c) ==
  IF Thrown(s) \/ ~isConnected(s, c) THEN s ELSE disconnect(s, c)

\* Dispose of any remaining connections (next/previous/output).
RECURSIVE disposeConnections(_, _, _)
disposeConnections(s, connections, i) ==
  IF Thrown(s) \/ i > Len(connections) THEN s
  ELSE disposeConnections(
         connectionDispose(disconnectIfConnected(s, connections[i]), connections[i]),
         connections, i + 1)

disposeRemainingConnections(s, b) ==
  IF Thrown(s) THEN s ELSE disposeConnections(s, getConnections_(s, b), 1)

\* dispose that leaves the entries of this.typedValue alone.
disposeValuesSkipped(s, b) == s

\* Dispose all of values (the entries of this.typedValue).
disposeValues(s, b) ==
  IF Thrown(s) \/ b \notin s.values THEN s ELSE valueDispose(s, b)

\* Blockly.Events: fire, disable, enable.
\* A delete notification delivered whether or not Events are enabled.
fireDeleteAlways(s, b) ==
  [s EXCEPT !.fired[b] = @ + 1,
            !.delivered = Append(@, [block |-> b, workspace |-> s.workspace,
                                     parentBlock_ |-> s.parentBlock_,
                                     targetConnection |-> s.targetConnection])]

fireDelete(s, b) ==
  IF s.disabled_ = 0
    THEN [s EXCEPT !.fired[b] = @ + 1,
                   !.delivered = Append(@, [block |-> b, workspace |-> s.workspace,
                                            parentBlock_ |-> s.parentBlock_,
                                            targetConnection |-> s.targetConnection])]
    ELSE s

eventsDisable(s) == [s EXCEPT !.disabled_ = @ + 1]

\* Events.enable() in the place of a finally clause that an exception skips.
eventsEnableUnlessThrown(s) ==
  IF Thrown(s) THEN s ELSE [s EXCEPT !.disabled_ = @ - 1]

eventsEnable(s) == [s EXCEPT !.disabled_ = @ - 1]

\* removeTopBlock, delete blockDB_[id], this.workspace = null.
removeFromWorkspace(s, b) ==
  IF Thrown(s) \/ ~s.workspace[b] THEN s
  ELSE [removeTopBlock(s, b) EXCEPT !.blockDB[id[b]] = Nil, !.workspace[b] = FALSE]

RECURSIVE dispose(_, _, _), disposeChildren(_, _, _)

\* for (i = childBlocks_.length - 1; i >= 0; i--) childBlocks_[i].dispose(false);
\* (i counts from 1 here.)
disposeChildren(s, b, i) ==
  IF Thrown(s) \/ i < 1 THEN s
  ELSE IF i > Len(s.childBlocks_[b]) THEN Throw(s, "TypeError")
  ELSE disposeChildren(dispose(s, s.childBlocks_[b][i], FALSE), b, i - 1)

\* The child loop counting upwards while the list shrinks under it.
RECURSIVE disposeChildrenForward(_, _, _)
disposeChildrenForward(s, b, i) ==
  IF Thrown(s) \/ i > Len(s.childBlocks_[b]) THEN s
  ELSE disposeChildrenForward(dispose(s, s.childBlocks_[b][i], FALSE), b, i + 1)

disposeAllChildrenForward(s, b) == disposeChildrenForward(s, b, 1)

disposeAllChildren(s, b) == disposeChildren(s, b, Len(s.childBlocks_[b]))

\* The rest of dispose with the next statement stack detached first.
disposeUnpluggedHealed(s, b) ==
  IF Thrown(s) THEN s
  ELSE eventsEnable(
         disposeValues(
           disposeRemainingConnections(
             clearInputList(
               disposeInputs(
                 disposeAllChildren(
                   removeFromWorkspace(
                     eventsDisable(fireDelete(unplugHeal(s, b, NoConn, TRUE), b)), b),
                   b),
                 b, 1),
               b),
             b),
           b))

\* The rest of dispose with the block's Inputs disposed before its
\* children.
disposeUnpluggedInputsFirst(s, b) ==
  IF Thrown(s) THEN s
  ELSE eventsEnable(
         disposeValues(
           disposeRemainingConnections(
             disposeAllChildren(
               clearInputList(
                 disposeInputs(
                   removeFromWorkspace(eventsDisable(fireDelete(s, b)), b),
                   b, 1),
                 b),
               b),
             b),
           b))

\* The rest of dispose once unplug has returned: the delete notification,
\* then the try block with Events disabled, then the finally clause.
disposeUnplugged(s, b) ==
  IF Thrown(s) THEN s
  ELSE eventsEnable(
         disposeValues(
           disposeRemainingConnections(
             clearInputList(
               disposeInputs(
                 disposeAllChildren(
                   removeFromWorkspace(eventsDisable(fireDelete(s, b)), b),
                   b),
                 b, 1),
               b),
             b),
           b))

\* dispose without the early return for a block that has no workspace.
disposeNoGuard(s, b, healStack) ==
  IF Thrown(s) THEN s
  ELSE disposeUnplugged(unplug(s, b, healStack), b)

dispose(s, b, healStack) ==
  IF Thrown(s) \/ ~s.workspace[b] THEN s
  ELSE disposeUnplugged(unplug(s, b, healStack), b)

\* ------------------------------------------------------------------------
\* Scope resolver
\* ------------------------------------------------------------------------
\* An environment maps a variable name to the block declaring its Value,
\* or to Nil when the name is absent.
EmptyEnv == [n \in Names |-> Nil]

\* Object.assign(target, source): the entries of source override.
ObjectAssign(target, source) ==
  [n \in Names |-> IF source[n] # Nil THEN source[n] ELSE target[n]]

EnvOk(e) == [env |-> e, err |-> "none"]

EnvErr(msg) == [env |-> EmptyEnv, err |-> msg]

\* The block type defines getVisibleVariables.
hasGetVisibleVariables(t) == t \in {"let_typed", "lambda_typed"}

\* The Input into which a declaring block makes its variable visible.
scopeInput(t) == IF t = "let_typed" THEN "EXP2" ELSE "RETURN"

\* getVisibleVariables that declares the variable into every connection.
getVisibleVariablesAnySlot(s, b, conn) ==
  IF scopeInput(type[b]) \notin Range(s.inputList[b]) THEN EnvErr("TypeError")
  ELSE EnvOk([n \in Names |-> IF n = varName[b] THEN b ELSE Nil])

\* lambda_typed / let_typed getVisibleVariables(conn).
getVisibleVariables(s, b, conn) ==
  IF scopeInput(type[b]) \notin Range(s.inputList[b]) THEN EnvErr("TypeError")
  ELSE IF inputConnection(b, scopeInput(type[b])) = conn
    THEN EnvOk([n \in Names |-> IF n = varName[b] THEN b ELSE Nil])
    ELSE EnvOk(EmptyEnv)

\* allVisibleVariables(conn, opt_bubble); depth bounds the recursion toward
\* the root, which does not end on a cyclic parent chain.
RECURSIVE allVisibleVariables(_, _, _, _, _)

\* allVisibleVariables in which the ancestors' variables override the
\* block's own.
allVisibleVariablesOuterWins(s, b, conn, opt_bubble, depth) ==
  IF conn = NoConn THEN EnvErr("TypeError")
  ELSE IF getSourceBlock(conn) # b THEN EnvOk(EmptyEnv)
  ELSE LET up ==
             IF opt_bubble /\ s.parentBlock_[b] # Nil
               THEN IF outputConnection(b) = NoConn THEN EnvErr("TypeError")
                    ELSE IF depth = 0 THEN EnvErr("RangeError")
                    ELSE allVisibleVariables(s, s.parentBlock_[b],
                           s.targetConnection[outputConnection(b)], TRUE, depth - 1)
               ELSE EnvOk(EmptyEnv)
       IN IF up.err # "none" THEN up
          ELSE IF hasGetVisibleVariables(type[b])
            THEN LET scopeVariables == getVisibleVariables(s, b, conn)
                 IN IF scopeVariables.err # "none" THEN scopeVariables
                    ELSE EnvOk(ObjectAssign(scopeVariables.env, up.env))
            ELSE up

allVisibleVariables(s, b, conn, opt_bubble, depth) ==
  IF conn = NoConn THEN EnvErr("TypeError")
  ELSE IF getSourceBlock(conn) # b THEN EnvOk(EmptyEnv)
  ELSE LET up ==
             IF opt_bubble /\ s.parentBlock_[b] # Nil
               THEN IF outputConnection(b) = NoConn THEN EnvErr("TypeError")
                    ELSE IF depth = 0 THEN EnvErr("RangeError")
                    ELSE allVisibleVariables(s, s.parentBlock_[b],
                           s.targetConnection[outputConnection(b)], TRUE, depth - 1)
               ELSE EnvOk(EmptyEnv)
       IN IF up.err # "none" THEN up
          ELSE IF hasGetVisibleVariables(type[b])
            THEN LET scopeVariables == getVisibleVariables(s, b, conn)
                 IN IF scopeVariables.err # "none" THEN scopeVariables
                    ELSE EnvOk(ObjectAssign(up.env, scopeVariables.env))
            ELSE up

\* The block owns a Reference (a variables_get_typed block whose field has
\* not been disposed with its Input).
ownsReference(s, b) ==
  type[b] = "variables_get_typed" /\ "DUMMY" \in Range(s.inputList[b])

\* resolveReferenceWithEnv_ binding the Reference even when not asked to.
resolveReferenceWithEnv_AlwaysBinds(s, b, env, opt_bind) ==
  IF ~ownsReference(s, b) THEN [s |-> s, success |-> TRUE]
  ELSE [s |-> [s EXCEPT !.boundValue[b] = env[varName[b]]],
        success |-> env[varName[b]] # Nil]

\* resolveReferenceWithEnv_ without the removeBoundValue() that resets the
\* Reference before binding.
resolveReferenceWithEnv_KeepsStale(s, b, env, opt_bind) ==
  IF ~ownsReference(s, b) THEN [s |-> s, success |-> TRUE]
  ELSE IF opt_bind /\ env[varName[b]] # Nil
    THEN [s |-> [s EXCEPT !.boundValue[b] = env[varName[b]]], success |-> TRUE]
    ELSE [s |-> s, success |-> env[varName[b]] # Nil]

\* resolveReferenceWithEnv_ without the early 'return false' of the mode
\* that does not bind.
resolveReferenceWithEnv_NoEarlyReturn(s, b, env, opt_bind) ==
  IF ~ownsReference(s, b) THEN [s |-> s, success |-> TRUE]
  ELSE IF opt_bind
    THEN [s |-> [s EXCEPT !.boundValue[b] = env[varName[b]]],
          success |-> env[varName[b]] # Nil]
    ELSE [s |-> s, success |-> TRUE]

\* resolveReferenceWithEnv_(env, opt_bind)
resolveReferenceWithEnv_(s, b, env, opt_bind) ==
  IF ~ownsReference(s, b) THEN [s |-> s, success |-> TRUE]
  ELSE LET value == env[varName[b]]
       IN IF opt_bind
            THEN [s |-> [s EXCEPT !.boundValue[b] = value], success |-> value # Nil]
            ELSE [s |-> s, success |-> value # Nil]

\* The queue entries pushed for the children of block, in childBlocks_ order;
\* err is set when computing a child's environment raises.
RECURSIVE childEntries(_, _, _, _)
\* The entries pushed for the children with the parent's environment
\* assigned over the block's own declarations.
childEntriesOuterWins(s, block, envOfParent, i) ==
  IF i > Len(s.childBlocks_[block]) THEN [q |-> <<>>, err |-> "none"]
  ELSE LET child == s.childBlocks_[block][i]
           targetConn == IF outputConnection(child) = NoConn THEN NoConn
                         ELSE s.targetConnection[outputConnection(child)]
           additionalEnv == allVisibleVariables(s, block, targetConn, FALSE, 0)
       IN IF additionalEnv.err # "none" THEN [q |-> <<>>, err |-> additionalEnv.err]
          ELSE LET envOfChild == ObjectAssign(additionalEnv.env, envOfParent)
                   rest == childEntries(s, block, envOfParent, i + 1)
               IN [q |-> <<[block |-> child, env |-> envOfChild]>> \o rest.q,
                   err |-> rest.err]

childEntries(s, block, envOfParent, i) ==
  IF i > Len(s.childBlocks_[block]) THEN [q |-> <<>>, err |-> "none"]
  ELSE LET child == s.childBlocks_[block][i]
           targetConn == IF outputConnection(child) = NoConn THEN NoConn
                         ELSE s.targetConnection[outputConnection(child)]
           additionalEnv == allVisibleVariables(s, block, targetConn, FALSE, 0)
       IN IF additionalEnv.err # "none" THEN [q |-> <<>>, err |-> additionalEnv.err]
          ELSE LET envOfChild == ObjectAssign(envOfParent, additionalEnv.env)
                   rest == childEntries(s, block, envOfParent, i + 1)
               IN [q |-> <<[block |-> child, env |-> envOfChild]>> \o rest.q,
                   err |-> rest.err]

\* The result of a traversal with block b put in front of the blocks visited.
Visit(b, r) == [r EXCEPT !.visited = <<b>> \o @]

\* The traversal loop that goes on after a failure in non-bind mode.
RECURSIVE resolveLoopNoShortCircuit(_, _, _, _)
resolveLoopNoShortCircuit(s, bfsStack, allSuccess, opt_bind) ==
  IF bfsStack = <<>> THEN [s |-> s, result |-> allSuccess, visited |-> <<>>]
  ELSE LET pair == Head(bfsStack)
           r == resolveReferenceWithEnv_(s, pair.block, pair.env, opt_bind)
           kids == childEntries(r.s, pair.block, pair.env, 1)
       IN Visit(pair.block,
                resolveLoopNoShortCircuit(r.s, Tail(bfsStack) \o kids.q,
                                          allSuccess /\ r.success, opt_bind))

\* The traversal loop of resolveReference; visited lists the blocks taken
\* off the queue, in order.
RECURSIVE resolveLoop(_, _, _, _)
resolveLoop(s, bfsStack, allSuccess, opt_bind) ==
  IF bfsStack = <<>> THEN [s |-> s, result |-> allSuccess, visited |-> <<>>]
  ELSE LET pair == Head(bfsStack)
           r == resolveReferenceWithEnv_(s, pair.block, pair.env, opt_bind)
           kids == childEntries(r.s, pair.block, pair.env, 1)
       IN IF ~r.success /\ ~opt_bind
            THEN [s |-> r.s, result |-> FALSE, visited |-> <<pair.block>>]
          ELSE IF kids.err # "none"
            THEN [s |-> Throw(r.s, kids.err), result |-> FALSE,
                  visited |-> <<pair.block>>]
            ELSE Visit(pair.block,
                       resolveLoop(r.s, Tail(bfsStack) \o kids.q,
                                   allSuccess /\ r.success, opt_bind))

\* resolveReference(parentConnection, opt_bind)
resolveReference(s, b, parentConnection, opt_bind) ==
  LET env == IF parentConnection # NoConn
               THEN allVisibleVariables(s, getSourceBlock(parentConnection),
                                        parentConnection, TRUE, MaxBlocks)
               ELSE EnvOk(EmptyEnv)
  IN IF env.err # "none"
       THEN [s |-> Throw(s, env.err), result |-> FALSE, visited |-> <<>>]
     ELSE resolveLoop(s, <<[block |-> b, env |-> env.env]>>, TRUE, opt_bind)

\* ------------------------------------------------------------------------
\* Type inference
\* ------------------------------------------------------------------------
\* Block types that define infer and clearTypes.
hasInfer(t) == t \in InferProtos \ {"int_typed"}

\* The env of infer: variable name to type expression, NoType when the name
\* is not in env.
EmptyTypeEnv == [n \in Names |-> NoType]

\* What an infer call has done: the vals of the type variables, the type
\* expression returned (NoType for null), whether a unification met
\* mismatching constructors, and the exception raised if any.
Inferred(tv, ty, mismatch) ==
  [tv |-> tv, ty |-> ty, mismatch |-> mismatch, err |-> "none"]

\* Dereferencing a property of undefined.
TypeError(r) == [r EXCEPT !.err = "TypeError"]

\* `if (t) t.unify(expected)` after the calls that gave r; ty is kept.
unifyIf(r, t, expected) ==
  IF r.err # "none" \/ t = NoType THEN r
  ELSE [r EXCEPT !.tv = unify(r.tv, t, expected).tv,
                 !.mismatch = @ \/ ~unify(r.tv, t, expected).ok]

\* The statement `return ty`.
return(r, ty) == IF r.err # "none" THEN r ELSE [r EXCEPT !.ty = ty]

\* arg.first_type.unify(...); arg.second_type.unify(...) of pair_first_typed:
\* a type variable object has neither property.
unifyPairComponents(r, arg, expected_arg) ==
  IF r.err # "none" \/ arg = NoType THEN r
  ELSE IF arg[1] # "PAIR" THEN TypeError(r)
  ELSE unifyIf(unifyIf(r, arg[2], expected_arg[2]), arg[3], expected_arg[3])

RECURSIVE infer(_, _, _, _)
RECURSIVE callInfer_(_, _, _, _, _)

\* callInfer_(name, env) of block b, after the calls that gave r.
callInfer_(s, r, b, name, env) ==
  IF r.err # "none" THEN r
  ELSE IF targetBlock(s, <<b, name>>) = Nil THEN return(r, NoType)
  ELSE IF hasInfer(type[targetBlock(s, <<b, name>>)])
    THEN infer(s, r, targetBlock(s, <<b, name>>), env)
  ELSE return(r, outputTypeExpr(s, targetBlock(s, <<b, name>>)))

\* infer of the two-operand blocks: both operands are unified with
\* expected_left and result is returned.
\* The two unify calls that follow the two callInfer_ calls of a block:
\* first and second are the outcomes of the calls, second being the later.
unifyBoth(first, second, expected_first, expected_second, result) ==
  return(unifyIf(unifyIf(second, first.ty, expected_first),
                 second.ty, expected_second), result)

\* callInfer_ of the Input called name after the call that gave first, then
\* the two unify calls.
inferSecond(s, first, b, name, env, expected_first, expected_second, result) ==
  unifyBoth(first, callInfer_(s, first, b, name, env),
            expected_first, expected_second, result)

inferOperands(s, r, b, env, expected_left, result) ==
  inferSecond(s, callInfer_(s, r, b, "A", env), b, "B", env,
              expected_left, expected_left, result)

inferPairCreate(s, r, b, env, expected) ==
  inferSecond(s, callInfer_(s, r, b, "FIRST", env), b, "SECOND", env,
              expected[2], expected[3], expected)

unifyArg(arg, expected, expected_arg) ==
  return(unifyPairComponents(arg, arg.ty, expected_arg), expected)

inferPairFirst(s, r, b, env, expected, expected_arg) ==
  unifyArg(callInfer_(s, r, b, "FIRST", env), expected, expected_arg)

inferVariablesGet(r, b, env, expected) ==
  IF env[varName[b]] # NoType
    THEN return(unifyIf(r, env[varName[b]], expected), expected)
    ELSE return(r, expected)

\* infer of let_typed without the variable in the env of the body.
inferLetForgetsVariable(s, r, b, env, expected_exp1, expected_exp2) ==
  inferSecond(s, callInfer_(s, r, b, "EXP1", env), b, "EXP2", env,
              expected_exp1, expected_exp2, expected_exp2)

inferLet(s, r, b, env, expected_exp1, expected_exp2) ==
  inferSecond(s, callInfer_(s, r, b, "EXP1", env), b, "EXP2",
              [env EXCEPT ![varName[b]] = expected_exp1],
              expected_exp1, expected_exp2, expected_exp2)

\* b.infer(env) after the calls that gave r.
infer(s, r, b, env) ==
  IF r.err # "none" THEN r
  ELSE CASE type[b] = "int_arithmetic_typed" ->
              inferOperands(s, r, b, env, INT, INT)
         [] type[b] = "logic_compare_typed" ->
              inferOperands(s, r, b, env, inputTypeExpr(s, b, "A"), BOOL)
         [] type[b] = "pair_create_typed" ->
              inferPairCreate(s, r, b, env, outputTypeExpr(s, b))
         [] type[b] = "pair_first_typed" ->
              inferPairFirst(s, r, b, env, outputTypeExpr(s, b),
                             inputTypeExpr(s, b, "FIRST"))
         [] type[b] = "variables_get_typed" ->
              inferVariablesGet(r, b, env, outputTypeExpr(s, b))
         [] type[b] = "let_typed" ->
              inferLet(s, r, b, env, inputTypeExpr(s, b, "EXP1"),
                       inputTypeExpr(s, b, "EXP2"))
         [] OTHER -> r

\* The type variables that clearTypes of a block of type t clears itself.
ownClears(t) ==
  CASE t \in {"logic_compare_typed", "pair_first_typed",
              "variables_get_typed"} -> <<"A">>
    [] t \in {"pair_create_typed", "let_typed"} -> <<"A", "B">>
    [] OTHER -> << >>

\* The Inputs whose child clearTypes instructs, in call order.
childClears(t) ==
  CASE t \in {"int_arithmetic_typed", "logic_compare_typed"} -> <<"A", "B">>
    [] t = "pair_create_typed" -> <<"FIRST", "SECOND">>
    [] t = "pair_first_typed" -> <<"FIRST">>
    [] t = "let_typed" -> <<"EXP1", "EXP2">>
    [] OTHER -> << >>

RECURSIVE clearAll(_, _, _, _)
clearAll(tv, b, names, i) ==
  IF i > Len(names) THEN tv
  ELSE clearAll(clear(tv, b, names[i]), b, names, i + 1)

RECURSIVE clearTypes(_, _, _)
RECURSIVE clearChildren(_, _, _, _, _)

\* callClearTypes_(name) for each name from the i-th on.
clearChildren(s, tv, b, names, i) ==
  IF i > Len(names) THEN tv
  ELSE IF targetBlock(s, <<b, names[i]>>) # Nil
          /\ hasInfer(type[targetBlock(s, <<b, names[i]>>)])
    THEN clearChildren(s, clearTypes(s, tv, targetBlock(s, <<b, names[i]>>)),
                       b, names, i + 1)
  ELSE clearChildren(s, tv, b, names, i + 1)

\* b.clearTypes(): the block's own clear() calls, then its children.
clearTypes(s, tv, b) ==
  clearChildren(s, clearAll(tv, b, ownClears(type[b]), 1), b,
                childClears(type[b]), 1)

\* updateTypeInference(opt_reset): the outcome of infer({}) after the
\* optional clearTypes.
updateTypeInference(s, tv, b, opt_reset) ==
  IF ~hasInfer(type[b]) THEN Inferred(tv, NoType, FALSE)
  ELSE infer(s, Inferred(IF opt_reset THEN clearTypes(s, tv, b) ELSE tv,
                         NoType, FALSE), b, EmptyTypeEnv)

\* ------------------------------------------------------------------------
\* Inputs: appending and reordering
\* ------------------------------------------------------------------------
\* An Input appended after construction: a value input is known by its
\* name, a dummy input appended under the name A or B by the name marked as
\* a dummy.
DummyNamed(name) == IF name = "A" THEN "dummy A" ELSE "dummy B"

\* input.name
InputName(input) ==
  CASE input = "dummy A" -> "A"
    [] input = "dummy B" -> "B"
    [] OTHER -> input

\* What reading an index outside an array gives.
Undefined == "undefined"

\* this.inputList[i], with the indices of the source (from 0).
InputAt(q, i) == IF 0 <= i /\ i < Len(q) THEN q[i + 1] ELSE Undefined

\* The position Array.prototype.splice starts at: a negative start counts
\* from the end, and the start is clamped to the array.
SpliceStart(q, start) ==
  IF start < 0 THEN (IF Len(q) + start < 0 THEN 0 ELSE Len(q) + start)
  ELSE IF start > Len(q) THEN Len(q) ELSE start

\* q.splice(start, 1)
SpliceRemove(q, start) ==
  IF SpliceStart(q, start) >= Len(q) THEN q
  ELSE SubSeq(q, 1, SpliceStart(q, start))
         \o SubSeq(q, SpliceStart(q, start) + 2, Len(q))

\* q.splice(start, 0, x)
SpliceInsert(q, start, x) ==
  SubSeq(q, 1, SpliceStart(q, start)) \o <<x>>
    \o SubSeq(q, SpliceStart(q, start) + 1, Len(q))

\* The move without the adjustment of refIndex for the removed Input.
MoveSplicesNoAdjust(q, inputIndex, refIndex) ==
  SpliceInsert(SpliceRemove(q, inputIndex), refIndex, InputAt(q, inputIndex))

\* The move without the removal of the Input from its old place.
MoveSplicesNoRemove(q, inputIndex, refIndex) ==
  SpliceInsert(q, refIndex, InputAt(q, inputIndex))

\* The Input sequence after the two splices of moveNumberedInputBefore, the
\* assertions having passed.
MoveSplices(q, inputIndex, refIndex) ==
  SpliceInsert(SpliceRemove(q, inputIndex),
               IF inputIndex < refIndex THEN refIndex - 1 ELSE refIndex,
               InputAt(q, inputIndex))

\* block.moveNumberedInputBefore(inputIndex, refIndex)
moveNumberedInputBefore(s, b, inputIndex, refIndex) ==
  IF inputIndex = refIndex THEN Throw(s, "AssertionError")
  ELSE IF ~(inputIndex < Len(s.inputList[b])) THEN Throw(s, "AssertionError")
  ELSE IF ~(refIndex <= Len(s.inputList[b])) THEN Throw(s, "AssertionError")
  ELSE [s EXCEPT !.inputList[b] = MoveSplices(@, inputIndex, refIndex)]

\* block.getInput(name): the index of the first Input of that name, -1 for
\* null; the loop ends at the first element that is not an Input.
RECURSIVE getInputFrom(_, _, _)
getInputFrom(q, name, i) ==
  IF InputAt(q, i) = Undefined THEN -1
  ELSE IF InputName(q[i + 1]) = name THEN i
  ELSE getInputFrom(q, name, i + 1)

getInput(s, b, name) == getInputFrom(s.inputList[b], name, 0)

\* The loop of moveInputBefore from index i on: the pair of inputIndex and
\* refIndex it ends with.
RECURSIVE findIndices(_, _, _, _, _, _)
findIndices(q, name, refName, i, inputIndex, refIndex) ==
  IF InputAt(q, i) = Undefined THEN <<inputIndex, refIndex>>
  ELSE IF InputName(q[i + 1]) = name
    THEN (IF refIndex # -1 THEN <<i, refIndex>>
          ELSE findIndices(q, name, refName, i + 1, i, refIndex))
  ELSE IF refName # NoName /\ InputName(q[i + 1]) = refName
    THEN (IF inputIndex # -1 THEN <<inputIndex, i>>
          ELSE findIndices(q, name, refName, i + 1, inputIndex, i))
  ELSE findIndices(q, name, refName, i + 1, inputIndex, refIndex)

\* block.moveInputBefore(name, refName); refName is NoName for null.
moveInputBefore(s, b, name, refName) ==
  IF name = refName THEN s
  ELSE IF findIndices(s.inputList[b], name, refName, 0, -1,
                      IF refName # NoName THEN -1
                      ELSE Len(s.inputList[b]))[1] = -1
    THEN Throw(s, "AssertionError")
  ELSE IF findIndices(s.inputList[b], name, refName, 0, -1,
                      IF refName # NoName THEN -1
                      ELSE Len(s.inputList[b]))[2] = -1
    THEN Throw(s, "AssertionError")
  ELSE moveNumberedInputBefore(
         s, b,
         findIndices(s.inputList[b], name, refName, 0, -1,
                     IF refName # NoName THEN -1 ELSE Len(s.inputList[b]))[1],
         findIndices(s.inputList[b], name, refName, 0, -1,
                     IF refName # NoName THEN -1 ELSE Len(s.inputList[b]))[2])

\* block.appendInput_(type, name): a connection is made for a value or a
\* statement input, and the new Input is pushed at the end.
appendInput_(s, b, inputType, name) ==
  IF inputType = "DUMMY_INPUT"
    THEN [s EXCEPT !.inputList[b] = Append(@, DummyNamed(name))]
  ELSE [s EXCEPT !.inputList[b] = Append(@, name),
                 !.connectionDB = @ \cup {<<b, name>>}]

\* The child connected at an Input of block b is disposed if it is a shadow
\* and unplugged otherwise; an Input without a connected child is left
\* alone.
removeInputChildAlwaysDisposed(s, b, input) ==
  IF inputConnection(b, input) = NoConn
       \/ ~isConnected(s, inputConnection(b, input)) THEN s
  ELSE dispose(s, targetBlock(s, inputConnection(b, input)), FALSE)

removeInputChild(s, b, input) ==
  IF inputConnection(b, input) = NoConn
       \/ ~isConnected(s, inputConnection(b, input)) THEN s
  ELSE IF isShadow_[targetBlock(s, inputConnection(b, input))]
    THEN dispose(s, targetBlock(s, inputConnection(b, input)), FALSE)
    ELSE unplug(s, targetBlock(s, inputConnection(b, input)), FALSE)

\* block.removeInput(name, opt_quiet); the loop over inputList is the loop
\* of getInput, and the Input found is disposed and spliced out.
removeInput(s, b, name, opt_quiet) ==
  IF getInput(s, b, name) = -1
    THEN IF opt_quiet THEN s ELSE Throw(s, "AssertionError")
  ELSE \* input.dispose(); this.inputList.splice(i, 1);
       LET r == inputDispose(
                  removeInputChild(s, b, InputAt(s.inputList[b],
                                                 getInput(s, b, name))),
                  b, InputAt(s.inputList[b], getInput(s, b, name)))
       IN IF Thrown(r) THEN r
          ELSE [r EXCEPT !.inputList[b] = SpliceRemove(@, getInput(s, b, name))]

\* ------------------------------------------------------------------------
\* replaceTypeExprWith
\* ------------------------------------------------------------------------
\* connection.replaceTypeExprWith(oldConnection): this connection takes the
\* type expression of the old one, which is left with the one this
\* connection had.
connectionReplaceTypeExprWith(at, c, d) ==
  [at EXCEPT ![c] = at[d], ![d] = at[c]]

\* The state of the walk: the type expression of every connection, the
\* pairs still to be visited (pairsToUnify), the pairs visited so far, the
\* variable oldBlock and the exception raised, if any.
Walk(at, thisBlock, oldBlock) ==
  [at |-> at, stack |-> <<<<thisBlock, oldBlock>>>>, visited |-> <<>>,
   oldBlock |-> oldBlock, err |-> "none"]

\* The body of the loop over the Inputs for one Input of thisBlock and the
\* Input of oldBlock at the same index.
replaceInput(s, w, thisBlock, oldBlock, input, oldInput) ==
  IF inputConnection(thisBlock, input) = NoConn THEN w
  ELSE IF oldInput = Undefined THEN [w EXCEPT !.err = "TypeError"]
  ELSE IF InputName(input) # InputName(oldInput)
    THEN [w EXCEPT !.err = "AssertionError"]
  ELSE IF inputConnection(oldBlock, oldInput) = NoConn
    THEN [w EXCEPT !.err = "TypeError"]
  ELSE [w EXCEPT
          !.at = connectionReplaceTypeExprWith(
                   @, inputConnection(thisBlock, input),
                   inputConnection(oldBlock, oldInput)),
          !.stack =
            IF /\ targetBlock(s, inputConnection(thisBlock, input)) # Nil
               /\ targetBlock(s, inputConnection(oldBlock, oldInput)) # Nil
            THEN Append(@, <<targetBlock(s, inputConnection(thisBlock, input)),
                             targetBlock(s, inputConnection(oldBlock,
                                                            oldInput))>>)
            ELSE @]

\* for (i = 0; input = thisBlock.inputList[i]; i++) from index i on.
RECURSIVE replaceInputs(_, _, _, _, _)
replaceInputs(s, w, thisBlock, oldBlock, i) ==
  IF w.err # "none" \/ InputAt(s.inputList[thisBlock], i) = Undefined THEN w
  ELSE replaceInputs(
         s, replaceInput(s, w, thisBlock, oldBlock,
                         InputAt(s.inputList[thisBlock], i),
                         InputAt(s.inputList[oldBlock], i)),
         thisBlock, oldBlock, i + 1)

\* The visit that goes on into a pair of blocks of different types.
visitPairAnyType(s, w, thisBlock, oldBlock) ==
  replaceInputs(
    s,
    IF outputConnection(thisBlock) # NoConn /\ outputConnection(oldBlock) # NoConn
    THEN [w EXCEPT !.at = connectionReplaceTypeExprWith(
                            @, outputConnection(thisBlock),
                            outputConnection(oldBlock))]
    ELSE w,
    thisBlock, oldBlock, 0)

\* The body of the while loop for the pair popped.
visitPair(s, w, thisBlock, oldBlock) ==
  IF type[thisBlock] # type[oldBlock] THEN w
  ELSE replaceInputs(
         s,
         IF outputConnection(thisBlock) # NoConn
         THEN [w EXCEPT !.at = connectionReplaceTypeExprWith(
                                 @, outputConnection(thisBlock),
                                 outputConnection(oldBlock))]
         ELSE w,
         thisBlock, oldBlock, 0)

\* while (pairsToUnify.length): pop a pair, which sets the variable
\* oldBlock, and visit it.
RECURSIVE walkPairs(_, _)
walkPairs(s, w) ==
  IF w.err # "none" \/ w.stack = <<>> THEN w
  ELSE walkPairs(
         s, visitPair(s,
                      [w EXCEPT !.stack = SubSeq(@, 1, Len(@) - 1),
                                !.visited = Append(@, w.stack[Len(w.stack)]),
                                !.oldBlock = w.stack[Len(w.stack)][2]],
                      w.stack[Len(w.stack)][1], w.stack[Len(w.stack)][2]))

\* thisBlock.replaceTypeExprWith(oldBlock) up to the call of
\* updateTypeInference, which is made on the block w.oldBlock.
replaceTypeExprWalk(s, at, thisBlock, oldBlock) ==
  walkPairs(s, Walk(at, thisBlock, oldBlock))

\* ------------------------------------------------------------------------
\* Initial state and operations
\* ------------------------------------------------------------------------
Constructed(b) == type[b] # "none"

Live(b) == workspace[b]

Disposed(b) == Constructed(b) /\ ~workspace[b]

Init ==
  /\ type = [b \in Blocks |-> "none"]
  /\ id = [b \in Blocks |-> NoId]
  /\ varName = [b \in Blocks |-> NoName]
  /\ isShadow_ = [b \in Blocks |-> FALSE]
  /\ workspace = [b \in Blocks |-> FALSE]
  /\ blockDB = [i \in Ids |-> Nil]
  /\ topBlocks = {}
  /\ parentBlock_ = [b \in Blocks |-> Nil]
  /\ childBlocks_ = [b \in Blocks |-> <<>>]
  /\ inputList = [b \in Blocks |-> <<>>]
  /\ targetConnection = [c \in Conns |-> NoConn]
  /\ connectionDB = {}
  /\ boundValue = [b \in Blocks |-> Nil]
  /\ values = {}
  /\ fired = [b \in Blocks |-> 0]
  /\ disabled_ = 0
  /\ tval = [v \in TVars |-> NoType]
  /\ typeExprAt = [c \in Conns |-> c]
  /\ last = NoLast

\* The constructor taking every id the caller supplies.
newIdTrustsCaller(b, opt_id) ==
  IF opt_id # NoId THEN opt_id ELSE genUid(b)

\* The id the constructor gives a block: opt_id unless absent or in use.
newId(b, opt_id) ==
  IF opt_id # NoId /\ blockDB[opt_id] = Nil THEN opt_id ELSE genUid(b)

\* new Blockly.Block(workspace, prototypeName, opt_id), the initializer of
\* the prototype included; flag records that opt_id was in use.
CreateWithin(t, n, opt_id, limit) ==
  /\ \E b \in 1 .. limit : ~Constructed(b)
  /\ LET b == CHOOSE x \in Blocks :
                ~Constructed(x) /\ \A y \in Blocks : y < x => Constructed(y)
     IN /\ type' = [type EXCEPT ![b] = t]
        /\ id' = [id EXCEPT ![b] = newId(b, opt_id)]
        /\ varName' = [varName EXCEPT ![b] = n]
        /\ workspace' = [workspace EXCEPT ![b] = TRUE]
        /\ blockDB' = [blockDB EXCEPT ![newId(b, opt_id)] = b]
        /\ topBlocks' = topBlocks \cup {b}
        /\ inputList' = [inputList EXCEPT ![b] = initInputs(t)]
        /\ connectionDB' = connectionDB \cup initConnections(b, t)
        /\ values' = IF hasGetVisibleVariables(t) THEN values \cup {b} ELSE values
        /\ last' = [NoLast EXCEPT !.op = "create",
                                  !.flag = (opt_id # NoId /\ blockDB[opt_id] # Nil)]
  /\ UNCHANGED <<isShadow_, parentBlock_, childBlocks_, targetConnection,
                 boundValue, fired, disabled_, tval, typeExprAt>>

Create(t, n, opt_id) == CreateWithin(t, n, opt_id, MaxBlocks)

\* workspace.newBlock(prototypeName) for an untyped prototype.
CreateBlock ==
  \E t \in StmtProtos \cup ValueProtos : Create(t, NoName, NoId)

\* workspace.newBlock(prototypeName) for a typed prototype; the name is the
\* text of its bound-variable field.
CreateTypedBlock ==
  \E t \in ScopeProtos :
    \E n \in (IF t = "lambda_typed" THEN {"x"} ELSE Names) : Create(t, n, NoId)


\* c.connect(d) on two registered connections of complementary kinds, c
\* being the superior one.  The callers plug a block only into a connection
\* outside the block's own subtree (the tree invariant of the data model).
ConnectStep(c, d) ==
  /\ c \in connectionDB /\ d \in connectionDB
  /\ isSuperior(c)
  /\ Complementary(c, d)
  /\ getSourceBlock(d) \notin getDescendants(Cur, getSourceBlock(c))
  /\ \E s \in {connect(Cur, c, d)} :
        /\ Commit(s)
        /\ Record(s, [NoLast EXCEPT !.op = "connect", !.err = s.err])
  /\ UNCHANGED <<type, id, varName, isShadow_, tval, typeExprAt>>

Connect == \E c \in connectionDB, d \in connectionDB : ConnectStep(c, d)

\* c.disconnect() on a connected connection.
DisconnectStep(c) ==
  /\ c \in connectionDB
  /\ isConnected(Cur, c)
  /\ \E s \in {disconnect(Cur, c)} :
        /\ Commit(s)
        /\ Record(s, [NoLast EXCEPT !.op = "disconnect", !.err = s.err])
  /\ UNCHANGED <<type, id, varName, isShadow_, tval, typeExprAt>>

Disconnect == \E c \in connectionDB : DisconnectStep(c)

\* b.unplug(opt_healStack)
UnplugStep(b, opt_healStack) ==
  /\ Constructed(b)
  /\ \E s \in {unplug(Cur, b, opt_healStack)} :
        /\ Commit(s)
        /\ Record(s, [NoLast EXCEPT !.op = "unplug",
                                    !.flag = opt_healStack,
                                    !.previousTarget = previousTargetOf(Cur, b),
                                    !.nextBlock = getNextBlock(Cur, b),
                                    !.err = s.err])
  /\ UNCHANGED <<type, id, varName, isShadow_, tval, typeExprAt>>

Unplug == \E b \in Blocks, opt_healStack \in BOOLEAN : UnplugStep(b, opt_healStack)

\* b.dispose(healStack).  A call on a block that is already disposed is
\* recorded as "disposeAgain"; result records that a Reference outside the
\* block's subtree was bound to the block's Value.
DisposeStep(b, healStack) ==
  /\ Constructed(b)
  /\ \E s \in {dispose(Cur, b, healStack)} :
        /\ Commit(s)
        /\ last' = IF workspace[b]
                     THEN [NoLast EXCEPT !.op = "dispose",
                                         !.flag = healStack,
                                         !.previousTarget = previousTargetOf(Cur, b),
                                         !.nextBlock = getNextBlock(Cur, b),
                                         !.count = Cardinality(getDescendants(Cur, b)),
                                         !.result =
                                           \E x \in Blocks \ getDescendants(Cur, b) :
                                             boundValue[x] = b,
                                         !.err = s.err]
                     ELSE [NoLast EXCEPT !.op = "disposeAgain", !.err = s.err]
  /\ UNCHANGED <<type, id, varName, isShadow_, tval, typeExprAt>>

Dispose == \E b \in Blocks, healStack \in BOOLEAN : DisposeStep(b, healStack)

\* Typed blocks have an output connection, so unplug and dispose never look
\* at healStack.
UnplugTyped == \E b \in Blocks : UnplugStep(b, FALSE)

DisposeTyped == \E b \in Blocks : DisposeStep(b, FALSE)

\* b.resolveReference(parentConnection, opt_bind); parentConnection is null
\* or a registered inferior connection of another block that is free or
\* holds b.
CanResolve(b, parentConnection) ==
  /\ Live(b)
  /\ parentConnection = NoConn
       \/ (/\ parentConnection \in connectionDB
           /\ ~isSuperior(parentConnection)
           /\ getSourceBlock(parentConnection) # b
           /\ targetBlock(Cur, parentConnection) \in {Nil, b})

ResolveStep(b, parentConnection, opt_bind) ==
  /\ CanResolve(b, parentConnection)
  /\ \E r \in {resolveReference(Cur, b, parentConnection, opt_bind)} :
        /\ Commit(r.s)
        /\ IF opt_bind
             THEN Record(r.s, [NoLast EXCEPT !.op = "resolveReference",
                                             !.flag = TRUE,
                                             !.result = r.result,
                                             !.err = r.s.err])
             ELSE last' = [NoLast EXCEPT !.op = "resolveReference"]
  /\ UNCHANGED <<type, id, varName, isShadow_, tval, typeExprAt>>

ResolveReference ==
  \E b \in Blocks, opt_bind \in BOOLEAN :
    \E parentConnection \in connectionDB \cup {NoConn} :
      ResolveStep(b, parentConnection, opt_bind)

\* workspace.newBlock(prototypeName) for a prototype that takes part in
\* type inference; a let or a variable getter is named x.
CreateInferBlock ==
  \E t \in InferProtos :
    Create(t, IF t \in ScopeProtos THEN "x" ELSE NoName, NoId)

\* b.resolveReference(null, true)
ResolveAndBind == \E b \in Blocks : ResolveStep(b, NoConn, TRUE)

\* b.updateTypeInference(opt_reset) on a block that defines infer.  An
\* exception leaves the vals as they were when it was raised.
UpdateStep(b, opt_reset) ==
  /\ Live(b)
  /\ hasInfer(type[b])
  /\ \E r \in {updateTypeInference(Cur, tval, b, opt_reset)} :
        /\ tval' = r.tv
        /\ last' = [NoLast EXCEPT !.op = "updateTypeInference",
                                  !.flag = opt_reset,
                                  !.block = b,
                                  !.result = r.mismatch,
                                  !.err = r.err]
  /\ UNCHANGED <<type, id, varName, isShadow_, workspace, blockDB, topBlocks,
                 parentBlock_, childBlocks_, inputList, targetConnection,
                 connectionDB, boundValue, values, fired, disabled_,
                 typeExprAt>>

UpdateTypeInference ==
  \E b \in Blocks, opt_reset \in BOOLEAN : UpdateStep(b, opt_reset)

\* Structural edits on untyped blocks.
Next ==
  \/ CreateBlock
  \/ Connect
  \/ Disconnect
  \/ Unplug
  \/ Dispose

Spec == Init /\ [][Next]_vars

\* Structural edits and scope resolution on typed blocks.
NextScope ==
  \/ CreateTypedBlock
  \/ Connect
  \/ UnplugTyped
  \/ DisposeTyped
  \/ ResolveReference

SpecScope == Init /\ [][NextScope]_vars

\* The type variables and the type expressions that the calls on the type
\* expression engine are made with.
MaxTypeVars == 4

UnifyVars ==
  {v \in TVars : 2 * (v[1] - 1) + (IF v[2] = "A" THEN 1 ELSE 2) <= MaxTypeVars}

UnifyTerms == {TVar(v[1], v[2]) : v \in UnifyVars} \cup {INT, BOOL}

\* a.unify(b)
UnifyStep(a, b) ==
  /\ tval' = unify(tval, a, b).tv
  /\ last' = [NoLast EXCEPT !.op = "unify", !.result = unify(tval, a, b).ok]
  /\ UNCHANGED <<type, id, varName, isShadow_, workspace, blockDB, topBlocks,
                 parentBlock_, childBlocks_, inputList, targetConnection,
                 connectionDB, boundValue, values, fired, disabled_,
                 typeExprAt>>

UnifyCall == \E a, b \in UnifyTerms : UnifyStep(a, b)

\* v.clear()
ClearStep(v) ==
  /\ tval' = clear(tval, v[1], v[2])
  /\ last' = [NoLast EXCEPT !.op = "clear"]
  /\ UNCHANGED <<type, id, varName, isShadow_, workspace, blockDB, topBlocks,
                 parentBlock_, childBlocks_, inputList, targetConnection,
                 connectionDB, boundValue, values, fired, disabled_,
                 typeExprAt>>

ClearCall == \E v \in UnifyVars : ClearStep(v)

\* Calls on the type expression engine alone.
NextUnify ==
  \/ UnifyCall
  \/ ClearCall

SpecUnify == Init /\ [][NextUnify]_vars

\* Building trees of blocks that take part in type inference, scope
\* resolution and type inference on them.
NextInfer ==
  \/ CreateInferBlock
  \/ Connect
  \/ ResolveAndBind
  \/ UpdateTypeInference

SpecInfer == Init /\ [][NextInfer]_vars

\* The prototypes whose Inputs are appended to and reordered.
InputProtos == {"int_arithmetic_typed"}

\* At most this many blocks have their Inputs appended to and reordered.
MaxInputBlocks == 2

\* A block carries at most this many Inputs.
MaxInputs == 3

\* The indices moveNumberedInputBefore is called with on a block with n
\* Inputs: those of the Inputs, the end, and one beyond on either side.
IndexArgs(b) == -1 .. (Len(inputList[b]) + 1)

\* The names moveInputBefore is called with: those of the Inputs of the
\* block and one no Input carries.
NamesOn(q) == {InputName(x) : x \in Range(q) \ {Undefined}}

NameArgs(b) == NamesOn(inputList[b]) \cup {"absent"}

\* workspace.newBlock(prototypeName)
CreateInputBlock ==
  /\ \E b \in 1 .. MaxInputBlocks : ~Constructed(b)
  /\ \E t \in InputProtos : Create(t, NoName, NoId)

\* b.moveNumberedInputBefore(inputIndex, refIndex)
MoveNumberedInputBefore ==
  \E b \in Blocks :
    \E inputIndex \in IndexArgs(b), refIndex \in IndexArgs(b) :
      /\ Live(b)
      /\ \E s \in {moveNumberedInputBefore(Cur, b, inputIndex, refIndex)} :
            /\ Commit(s)
            /\ Record(s, [NoLast EXCEPT !.op = "moveNumberedInputBefore",
                                        !.err = s.err])
      /\ UNCHANGED <<type, id, varName, isShadow_, tval, typeExprAt>>

\* b.moveInputBefore(name, refName)
MoveInputBefore ==
  \E b \in Blocks :
    \E name \in NameArgs(b), refName \in NameArgs(b) \cup {NoName} :
      /\ Live(b)
      /\ \E s \in {moveInputBefore(Cur, b, name, refName)} :
            /\ Commit(s)
            /\ Record(s, [NoLast EXCEPT !.op = "moveInputBefore",
                                        !.err = s.err])
      /\ UNCHANGED <<type, id, varName, isShadow_, tval, typeExprAt>>

\* b.appendDummyInput('A')
AppendInput ==
  \E b \in Blocks :
    /\ Live(b)
    /\ Len(inputList[b]) < MaxInputs
    /\ \E s \in {appendInput_(Cur, b, "DUMMY_INPUT", "A")} :
          /\ Commit(s)
          /\ last' = [NoLast EXCEPT !.op = "appendInput"]
    /\ UNCHANGED <<type, id, varName, isShadow_, tval, typeExprAt>>

\* workspace.newBlock(prototypeName) for a prototype with a nominal check.
CreateCheckedBlock == \E t \in CheckedProtos : Create(t, NoName, NoId)

\* c.connect(d) on two registered connections of complementary kinds, c
\* being the superior one, whether canConnect allows it or not; the outcome
\* of canConnect is recorded with the blocks of c and d.
ConnectAttempt ==
  \E c \in connectionDB, d \in connectionDB :
    /\ isSuperior(c)
    /\ Complementary(c, d)
    /\ getSourceBlock(d) \notin getDescendants(Cur, getSourceBlock(c))
    /\ \E s \in {connect(Cur, c, d)} :
          /\ Commit(s)
          /\ last' = [NoLast EXCEPT !.op = "connect",
                                    !.result = canConnect(Cur, c, d),
                                    !.block = getSourceBlock(c),
                                    !.nextBlock = getSourceBlock(d),
                                    !.err = s.err]
    /\ UNCHANGED <<type, id, varName, isShadow_, tval, typeExprAt>>

\* Connecting and disconnecting blocks whose connections carry a nominal
\* check and a literal type.
NextChecked ==
  \/ CreateCheckedBlock
  \/ ConnectAttempt
  \/ Disconnect

SpecChecked == Init /\ [][NextChecked]_vars

\* The prototypes of the blocks of the trees replaceTypeExprWith walks.
ReplaceProtos == {"int_arithmetic_typed", "int_typed"}

\* workspace.newBlock(prototypeName)
CreateReplaceBlock ==
  \E t \in ReplaceProtos : CreateWithin(t, NoName, NoId, MaxBlocks + 1)

\* b.moveInputBefore(name, refName) on the block created first, with its
\* second Input and its first.
ReorderInputs ==
  \E b \in {1} :
    /\ Live(b)
    /\ Len(initInputs(type[b])) >= 2
    /\ \E s \in {moveInputBefore(Cur, b, initInputs(type[b])[2],
                                  initInputs(type[b])[1])} :
          /\ Commit(s)
          /\ Record(s, [NoLast EXCEPT !.op = "moveInputBefore",
                                      !.err = s.err])
    /\ UNCHANGED <<type, id, varName, isShadow_, tval, typeExprAt>>

\* thisBlock.replaceTypeExprWith(oldBlock) on the roots of two trees, while
\* every connection still holds the type expression its initializer
\* created.  An exception leaves the type expressions replaced so far in
\* place and skips the inference; the inference runs on the type
\* expressions as the walk left them.
ReplaceTypeExprWith ==
  \E thisBlock \in Blocks, oldBlock \in Blocks :
    /\ Live(thisBlock) /\ Live(oldBlock)
    /\ thisBlock \in topBlocks /\ oldBlock \in topBlocks
    /\ typeExprAt = [c \in Conns |-> c]
    /\ UNCHANGED <<type, id, varName, isShadow_>>
    /\ Commit(Cur)
    /\ \E w \in {replaceTypeExprWalk(Cur, typeExprAt, thisBlock, oldBlock)} :
          /\ typeExprAt' = w.at
          /\ IF w.err # "none"
             THEN /\ tval' = tval
                  /\ last' = [NoLast EXCEPT !.op = "replaceTypeExprWith",
                                            !.nextBlock = oldBlock,
                                            !.count = Len(w.visited),
                                            !.err = w.err]
             ELSE \E r \in {updateTypeInference(
                               [Cur EXCEPT !.typeExprAt = w.at], tval,
                               w.oldBlock, FALSE)} :
                    /\ tval' = r.tv
                    /\ last' = [NoLast EXCEPT !.op = "replaceTypeExprWith",
                                              !.block = w.oldBlock,
                                              !.nextBlock = oldBlock,
                                              !.count = Len(w.visited),
                                              !.result = r.mismatch,
                                              !.err = r.err]

\* Building pairs of trees and replacing the type expressions of one by
\* those of the other.
NextReplace ==
  \/ CreateReplaceBlock
  \/ Connect
  \/ ReorderInputs
  \/ ReplaceTypeExprWith

SpecReplace == Init /\ [][NextReplace]_vars

\* Appending and reordering Inputs on connected blocks.
NextInputs ==
  \/ CreateInputBlock
  \/ Connect
  \/ MoveInputBefore
  \/ MoveNumberedInputBefore
  \/ AppendInput

SpecInputs == Init /\ [][NextInputs]_vars

\* c.connect(d) on any two registered connections of complementary kinds, c
\* being the superior one: connect itself asks for nothing but canConnect.
ConnectAny ==
  \E c \in connectionDB, d \in connectionDB :
    /\ isSuperior(c)
    /\ Complementary(c, d)
    /\ \E s \in {connect(Cur, c, d)} :
          /\ Commit(s)
          /\ Record(s, [NoLast EXCEPT !.op = "connect", !.err = s.err])
    /\ UNCHANGED <<type, id, varName, isShadow_, tval, typeExprAt>>

\* Structural edits in which every connect that passes canConnect is made.
NextAnyConnect ==
  \/ CreateBlock
  \/ ConnectAny
  \/ Disconnect
  \/ Unplug
  \/ Dispose

SpecAnyConnect == Init /\ [][NextAnyConnect]_vars

\* workspace.newBlock(prototypeName) for a typed prototype or for a block
\* with statement connections and a value Input.
CreateMixedBlock ==
  \/ CreateTypedBlock
  \/ Create("controls", NoName, NoId)

\* Scope resolution on trees that mix typed blocks and statement blocks.
NextMixed ==
  \/ CreateMixedBlock
  \/ Connect
  \/ ResolveReference

SpecMixed == Init /\ [][NextMixed]_vars

\* The depth to which callers outside dispose nest Blockly.Events.disable().
MaxDisabled == 1

\* new Blockly.Block(workspace, prototypeName, opt_id) with or without an id
\* supplied by the caller.
CreateWithId ==
  \E opt_id \in UserIds \cup {NoId} : Create("controls", NoName, opt_id)

\* b.setParent(null) on a block that still has a parent, called from outside
\* the connection code; what the call leaves behind when it raises stays.
SetParentWhileConnected ==
  \E b \in Blocks :
    /\ Live(b) /\ parentBlock_[b] # Nil
    /\ \E s \in {setParent(Cur, b, Nil)} :
          /\ Commit(s)
          /\ Record(s, [NoLast EXCEPT !.op = "setParent", !.block = b,
                                      !.err = s.err])
    /\ UNCHANGED <<type, id, varName, isShadow_, tval, typeExprAt>>

\* Blockly.Events.disable() called by code outside dispose.
EventsDisable ==
  /\ disabled_ < MaxDisabled
  /\ Commit(eventsDisable(Cur))
  /\ last' = [NoLast EXCEPT !.op = "disable"]
  /\ UNCHANGED <<type, id, varName, isShadow_, tval, typeExprAt>>

\* Blockly.Events.enable() matching an earlier disable().
EventsEnable ==
  /\ disabled_ > 0
  /\ Commit(eventsEnable(Cur))
  /\ last' = [NoLast EXCEPT !.op = "enable"]
  /\ UNCHANGED <<type, id, varName, isShadow_, tval, typeExprAt>>

\* workspace.newBlock('controls'): a statement block with a value Input and
\* a statement Input.
CreateControls == Create("controls", NoName, NoId)

\* Creation with caller-supplied ids, and disposal.
NextIds ==
  \/ CreateWithId
  \/ Connect
  \/ Dispose

SpecIds == Init /\ [][NextIds]_vars

\* Disposal with notifications switched off and on around it, also of
\* blocks that a raising setParent has left half detached.
NextEvents ==
  \/ CreateControls
  \/ Connect
  \/ SetParentWhileConnected
  \/ EventsDisable
  \/ EventsEnable
  \/ Dispose

SpecEvents == Init /\ [][NextEvents]_vars

\* Disposal with notifications switched off and on around it.
NextNotify ==
  \/ CreateControls
  \/ Connect
  \/ EventsDisable
  \/ EventsEnable
  \/ Dispose

SpecNotify == Init /\ [][NextNotify]_vars

\* b.setShadow(true) on a block that has just been made.
SetShadow ==
  \E b \in Blocks :
    /\ Live(b) /\ ~isShadow_[b]
    /\ parentBlock_[b] = Nil /\ childBlocks_[b] = <<>>
    /\ isShadow_' = [isShadow_ EXCEPT ![b] = TRUE]
    /\ last' = [NoLast EXCEPT !.op = "setShadow"]
    /\ Commit(Cur)
    /\ UNCHANGED <<type, id, varName, tval, typeExprAt>>

\* b.removeInput(name, opt_quiet) on the first block made; nextBlock
\* records the child that was connected at the Input and result that it was
\* a shadow.
RemoveInput ==
  \E b \in {1}, name \in {"COND", "DO", "A"}, opt_quiet \in BOOLEAN :
    /\ Live(b)
    /\ \E s \in {removeInput(Cur, b, name, opt_quiet)} :
          /\ Commit(s)
          /\ Record(s, [NoLast EXCEPT
                          !.op = "removeInput",
                          !.nextBlock = IF <<b, name>> \in connectionDB
                                          THEN targetBlock(Cur, <<b, name>>)
                                          ELSE Nil,
                          !.result = /\ <<b, name>> \in connectionDB
                                     /\ targetBlock(Cur, <<b, name>>) # Nil
                                     /\ isShadow_[targetBlock(Cur, <<b, name>>)],
                          !.err = s.err])
    /\ UNCHANGED <<type, id, varName, isShadow_, tval, typeExprAt>>

\* Blocks, some of them shadows, are connected and Inputs are removed.
NextRemove ==
  \/ CreateBlock
  \/ Connect
  \/ SetShadow
  \/ RemoveInput

SpecRemove == Init /\ [][NextRemove]_vars

NoError == last.err = "none"

TypeOK ==
  /\ type \in [Blocks -> Protos \cup {"none"}]
  /\ topBlocks \subseteq Blocks
  /\ parentBlock_ \in [Blocks -> Blocks \cup {Nil}]
  /\ connectionDB \subseteq Conns
  /\ disabled_ \in Nat

\* ------------------------------------------------------------------------
\* Connection and tree invariants
\* ------------------------------------------------------------------------
\* C1: after any sequence of connect, disconnect, unplug (with or without
\* healStack) and dispose, the target relation is symmetric (A.target = B
\* iff B.target = A); a connection holds one target reference, so it never
\* has more than one target and no two connections share a target.
C1_TargetSymmetric ==
  \A c \in Conns :
    targetConnection[c] # NoConn =>
      /\ targetConnection[c] \in Conns
      /\ targetConnection[targetConnection[c]] = c

\* A healing unplug has just joined the connection above the unplugged
\* block with the block that was below it.
C1_Witness ==
  /\ last.op = "unplug" /\ last.flag
  /\ last.previousTarget # NoConn /\ last.nextBlock # Nil
  /\ targetConnection[last.previousTarget] = <<last.nextBlock, "PREV">>

\* The superior connection of block b (Output, else Previous), or NoConn.
superiorConnection(b) ==
  IF outputConnection(b) # NoConn THEN outputConnection(b)
  ELSE previousConnection(b)

\* Number of occurrences of b in the child list q.
Occurrences(q, b) == Cardinality({i \in DOMAIN q : q[i] = b})

\* C2: between operations the parent/child tree agrees with the
\* connections: for live blocks b and p, b.parentBlock_ = p iff b occurs
\* exactly once in p.childBlocks_ iff b's Output or Previous connection
\* targets a connection owned by p; a block occurs in no child list more
\* than once and in the child list of at most one block.
C2_TreeMatchesConnections ==
  /\ \A b \in Blocks, p \in Blocks :
       Live(b) /\ Live(p) =>
         /\ (parentBlock_[b] = p) <=> (Occurrences(childBlocks_[p], b) = 1)
         /\ (parentBlock_[b] = p) <=>
              (/\ superiorConnection(b) # NoConn
               /\ targetConnection[superiorConnection(b)] # NoConn
               /\ getSourceBlock(targetConnection[superiorConnection(b)]) = p)
  /\ \A b \in Blocks, p \in Blocks : Occurrences(childBlocks_[p], b) <= 1
  /\ \A b \in Blocks :
       Cardinality({p \in Blocks : b \in Range(childBlocks_[p])}) <= 1

\* A block that had a parent was moved under another block by a healing
\* unplug, and its old parent is still alive.
C2_Witness ==
  /\ last.op = "unplug" /\ last.flag
  /\ last.previousTarget # NoConn /\ last.nextBlock # Nil
  /\ parentBlock_[last.nextBlock] = getSourceBlock(last.previousTarget)
  /\ \E b \in Blocks : Live(b) /\ parentBlock_[b] = Nil /\ childBlocks_[b] = <<>>
                       /\ b # getSourceBlock(last.previousTarget)

\* C3: between operations a live block is in the top-level set of its
\* workspace iff it has no parent; a disposed block is not in the set.
C3_TopIffNoParent ==
  \A b \in Blocks :
    /\ Live(b) => ((b \in topBlocks) <=> (parentBlock_[b] = Nil))
    /\ Disposed(b) => b \notin topBlocks

\* A block that was a child is top-level again after a disconnect, next to
\* its former parent and a block that was disposed.
C3_Witness ==
  /\ last.op = "disconnect"
  /\ Cardinality({b \in Blocks : Live(b) /\ parentBlock_[b] = Nil
                                       /\ b \in topBlocks}) = 2
  /\ \E b \in Blocks : Disposed(b)

\* ------------------------------------------------------------------------
\* dispose and unplug
\* ------------------------------------------------------------------------
\* Block b is in no identity table entry, top-level set or child list of s.
Absent(s, b) ==
  /\ \A i \in Ids : s.blockDB[i] # b
  /\ b \notin s.topBlocks
  /\ \A p \in Blocks : b \notin Range(s.childBlocks_[p])

\* No connection of a live block of s targets a connection of a block
\* without workspace.
NoTargetOnDisposed(s) ==
  \A c \in Conns :
    s.workspace[getSourceBlock(c)] /\ s.targetConnection[c] # NoConn
      => s.workspace[getSourceBlock(s.targetConnection[c])]

\* C4: dispose(false) on a live block X disposes every block that was a
\* descendant of X before the call: afterwards each has no workspace and is
\* absent from the identity table and the top-level set, and no connection
\* of a remaining live block targets a connection of a disposed block.
C4_DisposeTakesDescendants ==
  \A b \in Blocks :
    Live(b) =>
      \E s \in {dispose(Cur, b, FALSE)} :
        /\ \A d \in getDescendants(Cur, b) :
             /\ ~s.workspace[d]
             /\ \A i \in Ids : s.blockDB[i] # d
             /\ d \notin s.topBlocks
        /\ NoTargetOnDisposed(s)

\* dispose(false) has just taken a block with two descendants.
C4_Witness ==
  /\ last.op = "dispose" /\ ~last.flag /\ last.count = 3
  /\ \A b \in 1 .. MaxBlocks : Disposed(b) /\ Absent(Cur, b)

\* C5: Disposed is terminal: a disposed block stays disposed and no step
\* puts it back into the identity table, the top-level set or a child list;
\* dispose on it again changes no state and fires no notification.
C5_DisposedIsTerminal ==
  [][\A b \in Blocks :
       Disposed(b) =>
         /\ Disposed(b)'
         /\ Absent(Cur, b)'
         /\ \A healStack \in BOOLEAN : dispose(Cur, b, healStack) = Cur]_vars

\* dispose has just been called on a block that was already disposed, while
\* another block is alive.
C5_Witness ==
  /\ last.op = "disposeAgain"
  /\ \E b \in Blocks : Disposed(b) /\ fired[b] = 1
  /\ \E b \in Blocks : Live(b)

\* The subtree of block n is the same in s as in the current state: same
\* child lists and the same targets on the connections that hold children.
SubtreeKept(s, n) ==
  \A d \in getDescendants(Cur, n) :
    /\ s.childBlocks_[d] = childBlocks_[d]
    /\ d # n => s.parentBlock_[d] = parentBlock_[d]
    /\ \A c \in Conns :
         getSourceBlock(c) = d /\ ~isSuperior(c)
           => s.targetConnection[c] = targetConnection[c]

\* C6: unplug(true) on a block B whose Previous connection is connected to
\* P and which has a Next-block N: if P's check accepts N's Previous
\* connection, afterwards P and N's Previous connection are each other's
\* targets, B has no parent and no Next-block, and the blocks below N are
\* attached to N as before.
C6_HealReconnects ==
  \A b \in Blocks :
    (/\ Live(b)
     /\ previousTargetOf(Cur, b) # NoConn
     /\ getNextBlock(Cur, b) # Nil
     /\ checkType_(previousTargetOf(Cur, b), <<getNextBlock(Cur, b), "PREV">>))
    => \E s \in {unplug(Cur, b, TRUE)} :
         /\ s.targetConnection[previousTargetOf(Cur, b)]
              = <<getNextBlock(Cur, b), "PREV">>
         /\ s.targetConnection[<<getNextBlock(Cur, b), "PREV">>]
              = previousTargetOf(Cur, b)
         /\ s.parentBlock_[getNextBlock(Cur, b)]
              = getSourceBlock(previousTargetOf(Cur, b))
         /\ s.parentBlock_[b] = Nil
         /\ getNextBlock(s, b) = Nil
         /\ SubtreeKept(s, getNextBlock(Cur, b))

\* A healing unplug has just joined P and N, and the unplugged block is a
\* top-level block with no Next-block.
C6_Witness ==
  /\ last.op = "unplug" /\ last.flag
  /\ last.previousTarget # NoConn /\ last.nextBlock # Nil
  /\ targetConnection[<<last.nextBlock, "PREV">>] = last.previousTarget
  /\ Cardinality({b \in topBlocks : childBlocks_[b] = <<>>}) = 1

\* N is not reconnected by unplug(opt_healStack) on b: healStack is not
\* requested, nothing is connected above b, or the checks are incompatible.
NotReconnected(b, opt_healStack) ==
  \/ ~opt_healStack
  \/ previousTargetOf(Cur, b) = NoConn
  \/ ~checkType_(previousTargetOf(Cur, b), <<getNextBlock(Cur, b), "PREV">>)

\* In s the block n is the head of an unattached stack, n's subtree intact.
Unattached(s, n) ==
  /\ s.parentBlock_[n] = Nil
  /\ s.targetConnection[<<n, "PREV">>] = NoConn
  /\ n \in s.topBlocks
  /\ SubtreeKept(s, n)

\* C7 as stated: whenever N is not reconnected (healStack not requested
\* included), after unplug N has no parent and is no longer connected to B.
C7_Original ==
  \A b \in Blocks, opt_healStack \in BOOLEAN :
    (/\ Live(b)
     /\ previousConnection(b) # NoConn
     /\ getNextBlock(Cur, b) # Nil
     /\ NotReconnected(b, opt_healStack))
    => \E s \in {unplug(Cur, b, opt_healStack)} :
         /\ s.parentBlock_[getNextBlock(Cur, b)] = Nil
         /\ s.targetConnection[<<getNextBlock(Cur, b), "PREV">>] # <<b, "NEXT">>

\* C7: unplug on a block B that has a Previous connection and a Next-block
\* N.  With healStack requested and N not reconnected (nothing connected
\* above B, or incompatible checks), N and everything below it form a new
\* unattached stack.  Without healStack N stays connected below B, with
\* everything below it.
C7_UnattachedOnlyWhenHealing ==
  \A b \in Blocks :
    (/\ Live(b)
     /\ previousConnection(b) # NoConn
     /\ getNextBlock(Cur, b) # Nil)
    => /\ NotReconnected(b, TRUE)
            => Unattached(unplug(Cur, b, TRUE), getNextBlock(Cur, b))
       /\ \E s \in {unplug(Cur, b, FALSE)} :
            /\ s.parentBlock_[getNextBlock(Cur, b)] = b
            /\ s.targetConnection[<<getNextBlock(Cur, b), "PREV">>] = <<b, "NEXT">>
            /\ s.targetConnection[<<b, "NEXT">>] = <<getNextBlock(Cur, b), "PREV">>
            /\ SubtreeKept(s, getNextBlock(Cur, b))

\* unplug without healStack has just freed the connection above a block
\* whose Next-block is still its child.
C7_Witness ==
  /\ last.op = "unplug" /\ ~last.flag
  /\ last.previousTarget # NoConn /\ last.nextBlock # Nil
  /\ targetConnection[last.previousTarget] = NoConn
  /\ parentBlock_[last.nextBlock] # Nil
  /\ parentBlock_[last.nextBlock] # getSourceBlock(last.previousTarget)

\* C8 as stated: dispose(false) on the middle block of a statement stack
\* leaves the third block and every block below it alive, the third being an
\* unattached top-level block.
C8_Original ==
  \A b \in Blocks :
    (/\ Live(b)
     /\ previousTargetOf(Cur, b) # NoConn
     /\ getNextBlock(Cur, b) # Nil)
    => \E s \in {dispose(Cur, b, FALSE)} :
         /\ \A d \in getDescendants(Cur, getNextBlock(Cur, b)) : s.workspace[d]
         /\ s.parentBlock_[getNextBlock(Cur, b)] = Nil
         /\ getNextBlock(Cur, b) \in s.topBlocks

\* C8: dispose(false) on the middle block of a three-block statement stack
\* disposes the third block and every block below it together with the
\* middle block; the first block stays alive with its connection free.
C8_DisposeTakesNextStack ==
  \A b \in Blocks :
    (/\ Live(b)
     /\ previousTargetOf(Cur, b) # NoConn
     /\ getNextBlock(Cur, b) # Nil)
    => \E s \in {dispose(Cur, b, FALSE)} :
         /\ \A d \in getDescendants(Cur, getNextBlock(Cur, b)) :
              ~s.workspace[d] /\ Absent(s, d)
         /\ ~s.workspace[b]
         /\ s.workspace[getSourceBlock(previousTargetOf(Cur, b))]
         /\ s.targetConnection[previousTargetOf(Cur, b)] = NoConn

\* dispose(false) has just taken the middle block of a stack: the block that
\* was below it is disposed and the block that was above it is alive.
C8_Witness ==
  /\ last.op = "dispose" /\ ~last.flag
  /\ last.previousTarget # NoConn /\ last.nextBlock # Nil
  /\ connType(last.previousTarget) = "NEXT_STATEMENT"
  /\ last.previousTarget[2] = "NEXT"
  /\ Disposed(last.nextBlock)
  /\ Live(getSourceBlock(last.previousTarget))

\* ------------------------------------------------------------------------
\* Scope resolution
\* ------------------------------------------------------------------------
\* C9: resolveReference(conn, bind=false) never changes the bound Value of
\* any Reference, for every block tree, every conn (null included) and
\* either result.
C9_NoBindNoChange ==
  \A b \in Blocks, parentConnection \in connectionDB \cup {NoConn} :
    CanResolve(b, parentConnection) =>
      resolveReference(Cur, b, parentConnection, FALSE).s.boundValue = boundValue

\* resolveReference without bind has just run while a detached block still
\* holds a binding that a binding call would clear.
C9_Witness ==
  /\ last.op = "resolveReference" /\ ~last.flag
  /\ \E b \in Blocks :
       /\ Live(b) /\ boundValue[b] # Nil /\ parentBlock_[b] = Nil
       /\ ~resolveReference(Cur, b, NoConn, FALSE).result

\* Block p declares name n into its connection c.
Declares(p, c, n) ==
  /\ hasGetVisibleVariables(type[p])
  /\ c = <<p, scopeInput(type[p])>>
  /\ varName[p] = n

\* The block whose declaration of n is the innermost one enclosing
\* connection c, or Nil.
RECURSIVE VisibleIn(_, _, _)
VisibleIn(c, n, fuel) ==
  IF c = NoConn THEN Nil
  ELSE IF Declares(getSourceBlock(c), c, n) THEN getSourceBlock(c)
  ELSE IF parentBlock_[getSourceBlock(c)] = Nil \/ fuel = 0 THEN Nil
  ELSE VisibleIn(targetConnection[<<getSourceBlock(c), "OUT">>], n, fuel - 1)

\* The declaration of n that block x of the subtree of root sees when root
\* is resolved against parentConnection: the innermost declaration between x
\* and root, else the one visible in parentConnection.
RECURSIVE DeclarationFor(_, _, _, _, _)
DeclarationFor(root, parentConnection, x, n, fuel) ==
  IF x = root \/ fuel = 0 THEN VisibleIn(parentConnection, n, MaxBlocks)
  ELSE IF Declares(parentBlock_[x], targetConnection[<<x, "OUT">>], n)
    THEN parentBlock_[x]
    ELSE DeclarationFor(root, parentConnection, parentBlock_[x], n, fuel - 1)

\* The blocks of the subtree of b that own a Reference.
ReferencesBelow(b) == {x \in getDescendants(Cur, b) : ownsReference(Cur, x)}

\* C10: after resolveReference(conn, bind=true) returns on block X, every
\* Reference in X's subtree is bound to the Value its environment maps its
\* name to, or is unresolved when the environment has no such name (so no
\* binding from before the call survives unjustified), and the result is
\* true iff every Reference in the subtree is bound.
C10_BindMatchesScope ==
  \A b \in Blocks, parentConnection \in connectionDB \cup {NoConn} :
    CanResolve(b, parentConnection) =>
      \E r \in {resolveReference(Cur, b, parentConnection, TRUE)} :
        r.s.err = "none" =>
          /\ \A x \in ReferencesBelow(b) :
               r.s.boundValue[x]
                 = DeclarationFor(b, parentConnection, x, varName[x], MaxBlocks)
          /\ r.result <=> \A x \in ReferencesBelow(b) : r.s.boundValue[x] # Nil
          /\ \A x \in Blocks \ ReferencesBelow(b) :
               r.s.boundValue[x] = boundValue[x]

\* A binding resolveReference has just returned false on a block with one
\* Reference bound to the enclosing declaration and one left unresolved.
C10_Witness ==
  /\ last.op = "resolveReference" /\ last.flag /\ ~last.result
  /\ \E x \in Blocks : boundValue[x] # Nil /\ boundValue[x] = parentBlock_[x]
  /\ \E x \in Blocks : /\ ownsReference(Cur, x) /\ boundValue[x] = Nil
                       /\ parentBlock_[x] # Nil

\* The blocks of the subtree of the queued blocks in breadth-first order:
\* the head of the queue, then the rest of the queue followed by the head's
\* children.
RECURSIVE BreadthFirst(_, _)
BreadthFirst(queue, fuel) ==
  IF queue = <<>> \/ fuel = 0 THEN <<>>
  ELSE <<Head(queue)>>
         \o BreadthFirst(Tail(queue) \o childBlocks_[Head(queue)], fuel - 1)

\* Block x owns a Reference that its environment cannot resolve when root is
\* resolved against parentConnection.
FailsAt(root, parentConnection, x) ==
  /\ ownsReference(Cur, x)
  /\ DeclarationFor(root, parentConnection, x, varName[x], MaxBlocks) = Nil

\* The first i for which P(order[i]) holds, or Len(order) if there is none.
UpToFirst(order, P(_)) ==
  IF \E i \in DOMAIN order : P(order[i])
    THEN CHOOSE i \in DOMAIN order :
           P(order[i]) /\ \A j \in 1 .. (i - 1) : ~P(order[j])
    ELSE Len(order)

VisibleEnv(c) == [n \in Names |-> VisibleIn(c, n, MaxBlocks)]

\* C12: allVisibleVariables(conn) on block b, for conn owned by b, is what
\* is visible to b's parent at the connection b is plugged into (recursively
\* toward the root, empty when b is top-level) extended with the variables
\* b declares into conn; it is empty when conn is not owned by b.
C12_VisibleVariables ==
  \A b \in Blocks, conn \in connectionDB :
    Live(b) =>
      \E e \in {allVisibleVariables(Cur, b, conn, TRUE, MaxBlocks)} :
        /\ e.err = "none"
        /\ getSourceBlock(conn) # b => e.env = EmptyEnv
        /\ getSourceBlock(conn) = b =>
             /\ e.env = VisibleEnv(conn)
             /\ e.env =
                  ObjectAssign(
                    IF parentBlock_[b] = Nil THEN EmptyEnv
                    ELSE VisibleEnv(targetConnection[<<b, "OUT">>]),
                    [n \in Names |-> IF Declares(b, conn, n) THEN b ELSE Nil])

\* A declaring block is plugged into the scope slot of another block that
\* declares the same name, so the inner declaration shadows the outer one
\* for the block plugged into the inner scope slot.
C12_Witness ==
  \E b \in Blocks, p \in Blocks :
    /\ Live(b) /\ Live(p) /\ parentBlock_[b] = p
    /\ hasGetVisibleVariables(type[b]) /\ hasGetVisibleVariables(type[p])
    /\ targetConnection[<<b, "OUT">>] = <<p, scopeInput(type[p])>>
    /\ targetConnection[<<b, scopeInput(type[b])>>] # NoConn
    /\ varName[b] = varName[p]
    /\ VisibleEnv(<<b, scopeInput(type[b])>>)[varName[b]] = b
    /\ last.op = "resolveReference"

\* Block x sits in the subtree plugged into connection c.
Under(c, x) ==
  \E k \in Blocks :
    /\ targetConnection[<<k, "OUT">>] = c
    /\ x \in getDescendants(Cur, k)

\* The connection into which block v declares its variable.
ScopeOf(v) == <<v, scopeInput(type[v])>>

\* C13: a declared variable is visible only inside the slot it is declared
\* into.  getVisibleVariables of a lambda_typed or let_typed block is empty
\* for every connection but RETURN resp. EXP2 (EXP1 in particular), and
\* after resolveReference with bind every Reference of the subtree that is
\* bound to the Value of a block v sits under v's scope slot, or the
\* resolved block is being offered a connection that is v's scope slot or
\* sits under it: no Reference is resolved against a Value declared into a
\* sibling slot.
C13_ScopeIsSlotLocal ==
  /\ \A v \in Blocks, c \in connectionDB :
       Live(v) /\ hasGetVisibleVariables(type[v]) /\ c # ScopeOf(v)
         => getVisibleVariables(Cur, v, c).env = EmptyEnv
  /\ \A b \in Blocks, parentConnection \in connectionDB \cup {NoConn} :
       CanResolve(b, parentConnection) =>
         \E r \in {resolveReference(Cur, b, parentConnection, TRUE)} :
           \A x \in ReferencesBelow(b) :
             r.s.boundValue[x] # Nil =>
               /\ hasGetVisibleVariables(type[r.s.boundValue[x]])
               /\ varName[r.s.boundValue[x]] = varName[x]
               /\ \/ Under(ScopeOf(r.s.boundValue[x]), x)
                  \/ parentConnection = ScopeOf(r.s.boundValue[x])
                  \/ /\ parentConnection # NoConn
                     /\ Under(ScopeOf(r.s.boundValue[x]),
                              getSourceBlock(parentConnection))

\* A binding resolveReference has just run on a let_typed block with a
\* Reference of its name in EXP1 and another in EXP2: the one in EXP2 is
\* bound to the let block's Value, the one in EXP1 is unresolved.
C13_Witness ==
  /\ last.op = "resolveReference" /\ last.flag
  /\ \E v \in Blocks, x \in Blocks, y \in Blocks :
       /\ type[v] = "let_typed" /\ Live(v)
       /\ targetConnection[<<v, "EXP1">>] = <<x, "OUT">>
       /\ targetConnection[<<v, "EXP2">>] = <<y, "OUT">>
       /\ ownsReference(Cur, x) /\ ownsReference(Cur, y)
       /\ varName[x] = varName[v] /\ varName[y] = varName[v]
       /\ boundValue[x] = Nil /\ boundValue[y] = v

\* C15: disposing a block that declares a Value (let_typed, lambda_typed)
\* disposes every Value of the blocks disposed with it; afterwards no
\* Reference anywhere is bound to such a Value, and re-resolving a
\* surviving Reference that has no other enclosing declaration of its name
\* leaves it unresolved.  Between operations no Reference is bound to a
\* Value that has been disposed.
C15_ValueDiesWithBlock ==
  /\ \A x \in Blocks : boundValue[x] # Nil => boundValue[x] \in values
  /\ \A b \in Blocks, healStack \in BOOLEAN :
       Live(b) /\ hasGetVisibleVariables(type[b]) =>
         \E s \in {dispose(Cur, b, healStack)} :
           /\ \A d \in getDescendants(Cur, b) : d \notin s.values
           /\ \A x \in Blocks : s.boundValue[x] \notin getDescendants(Cur, b)
           /\ \A x \in Blocks :
                (/\ s.workspace[x] /\ ownsReference(s, x)
                 /\ VisibleIn(targetConnection[<<x, "OUT">>], varName[x],
                              MaxBlocks) = Nil)
                => \E r \in {resolveReference(s, x, s.targetConnection[<<x, "OUT">>],
                                              TRUE)} :
                     r.s.boundValue[x] = Nil /\ ~r.result

\* dispose has just taken a declaring block to whose Value a Reference
\* outside its subtree was bound; the Reference block is alive and
\* unresolved.
C15_Witness ==
  /\ last.op = "dispose" /\ last.result
  /\ \E b \in Blocks : Disposed(b) /\ hasGetVisibleVariables(type[b])
                       /\ b \notin values
  /\ \E x \in Blocks : Live(x) /\ ownsReference(Cur, x) /\ boundValue[x] = Nil

\* ------------------------------------------------------------------------
\* Type inference
\* ------------------------------------------------------------------------
\* The tree `let x = 3 in x`: l is a let_typed block with the int_typed
\* block in EXP1 and the variables_get_typed block g of the same name in
\* EXP2.
LetIntGet(l, g) ==
  /\ Live(l) /\ Live(g)
  /\ type[l] = "let_typed" /\ type[g] = "variables_get_typed"
  /\ targetBlock(Cur, <<l, "EXP1">>) # Nil
  /\ type[targetBlock(Cur, <<l, "EXP1">>)] = "int_typed"
  /\ targetBlock(Cur, <<l, "EXP2">>) = g
  /\ varName[g] = varName[l]
  /\ parentBlock_[l] = Nil

\* C14: for the tree `let x = 3 in x`, resolveReference with bind = true
\* from the let block returns true and binds the x Reference to the let
\* block's Value, and updateTypeInference(true) on the let block leaves the
\* Reference block's output type expression resolving to Int.
C14_LetIntGet ==
  \A l, g \in Blocks :
    LetIntGet(l, g) =>
      /\ resolveReference(Cur, l, NoConn, TRUE).result
      /\ resolveReference(Cur, l, NoConn, TRUE).s.boundValue[g] = l
      /\ updateTypeInference(Cur, tval, l, TRUE).err = "none"
      /\ resolve(updateTypeInference(Cur, tval, l, TRUE).tv,
                 outputTypeExpr(Cur, g)) = INT

\* `let x = 3 in x` has been built, its Reference is bound to the let
\* block's Value, and a reset-and-infer pass from the let block has just
\* given the Reference the type Int.
C14_Witness ==
  \E l, g \in Blocks :
    /\ LetIntGet(l, g)
    /\ boundValue[g] = l
    /\ last.op = "updateTypeInference" /\ last.flag /\ last.block = l
    /\ resolve(tval, outputTypeExpr(Cur, g)) = INT

\* The sockets of the tree below b: the connections of b and of its
\* descendants that carry a type expression.
TypedSockets(b) ==
  {c \in Conns : /\ getSourceBlock(c) \in getDescendants(Cur, b)
                 /\ c \in connectionDB
                 /\ typeExpr(Cur, c) # NoType}

\* Every socket below b resolves to the same type under the vals tv1 and tv2.
SameResolvedTypes(b, tv1, tv2) ==
  \A c \in TypedSockets(b) : resolve(tv1, typeExpr(Cur, c)) = resolve(tv2, typeExpr(Cur, c))

\* A second updateTypeInference(true) on b after the first one, which gave
\* first, ends like the first and with the same resolved types.
SecondRunAgrees(b, first, second) ==
  /\ second.err = first.err
  /\ second.mismatch = first.mismatch
  /\ first.err = "none" => SameResolvedTypes(b, first.tv, second.tv)

\* C16: for every tree of blocks, running updateTypeInference(true) from a
\* block a second time with no structural change in between gives every
\* socket of the tree below the block the same resolved type as the first
\* run gave it.
C16_InferenceIdempotent ==
  \A b \in Blocks :
    Live(b) /\ hasInfer(type[b]) =>
      SecondRunAgrees(b, updateTypeInference(Cur, tval, b, TRUE),
                      updateTypeInference(
                        Cur, updateTypeInference(Cur, tval, b, TRUE).tv, b, TRUE))

\* A reset-and-infer pass has just run from the root of a tree of three
\* blocks and has bound type variables, and running it again changes
\* nothing.
C16_Witness ==
  \E b \in Blocks :
    /\ last.op = "updateTypeInference" /\ last.flag /\ last.block = b
    /\ last.err = "none"
    /\ Cardinality(getDescendants(Cur, b)) = MaxBlocks
    /\ \E c \in TypedSockets(b) :
         isTypeVar(typeExpr(Cur, c)) /\ ~isTypeVar(resolve(tval, typeExpr(Cur, c)))
    /\ updateTypeInference(Cur, tval, b, TRUE).tv = tval

\* C17: the clearTypes of every block type resets every type variable that
\* the block's initializer created, and has done so when it starts to
\* instruct the block's children: after the block's own clear() calls every
\* one of these variables is unbound, and it is still unbound when
\* clearTypes returns.
C17_ClearTypesResetsOwn ==
  \A b \in Blocks :
    Live(b) /\ hasInfer(type[b]) =>
      \A n \in initTypeVars(type[b]) :
        /\ clearAll(tval, b, ownClears(type[b]), 1)[<<b, n>>] = NoType
        /\ clearTypes(Cur, tval, b)[<<b, n>>] = NoType

\* C17, as the code behaves: clearTypes unbinds every type variable of the
\* block's initializer before it instructs the children, except that
\* pair_first_typed unbinds only the variable on its output and leaves the
\* second component of its Input's pair type as it was.
C17_ClearTypesKeepsSecondType ==
  \A b \in Blocks :
    Live(b) /\ hasInfer(type[b]) =>
      \A n \in initTypeVars(type[b]) :
        IF type[b] = "pair_first_typed" /\ n = "B"
          THEN clearTypes(Cur, tval, b)[<<b, n>>] = tval[<<b, n>>]
          ELSE /\ clearAll(tval, b, ownClears(type[b]), 1)[<<b, n>>] = NoType
               /\ clearTypes(Cur, tval, b)[<<b, n>>] = NoType

\* A reset-and-infer pass has run from a pair_first_typed block whose
\* argument is a pair with an int_typed second component, and clearTypes
\* on the block leaves the second component bound to Int.
C17_Witness ==
  \E b \in Blocks :
    /\ type[b] = "pair_first_typed" /\ Live(b)
    /\ last.op = "updateTypeInference" /\ last.flag /\ last.block = b
    /\ tval[<<b, "B">>] = INT
    /\ clearTypes(Cur, tval, b)[<<b, "B">>] = INT
    /\ clearTypes(Cur, tval, b)[<<b, "A">>] = NoType

\* C18: inference never aborts: for every tree whose connections passed
\* canConnect, updateTypeInference from any block of the tree, with or
\* without the reset pass, ends without an exception.
C18_InferenceNeverAborts ==
  \A b \in Blocks, opt_reset \in BOOLEAN :
    Live(b) /\ hasInfer(type[b]) =>
      updateTypeInference(Cur, tval, b, opt_reset).err = "none"

\* Block p is a pair_first_typed block whose argument block returns a type
\* variable from infer instead of a pair type.
VariableArgument(p) ==
  /\ type[p] = "pair_first_typed"
  /\ targetBlock(Cur, <<p, "FIRST">>) # Nil
  /\ type[targetBlock(Cur, <<p, "FIRST">>)] \in
       {"variables_get_typed", "let_typed", "pair_first_typed"}

\* C18, as the code behaves: updateTypeInference raises exactly when the
\* tree below the block holds a pair_first_typed block whose argument
\* block's infer returns a type variable; mismatching constructors never
\* raise.
C18_AbortsOnVariableArgument ==
  \A b \in Blocks, opt_reset \in BOOLEAN :
    Live(b) /\ hasInfer(type[b]) =>
      (updateTypeInference(Cur, tval, b, opt_reset).err = "TypeError"
         <=> \E p \in getDescendants(Cur, b) : VariableArgument(p))

\* Inference has just been run from a pair_first_typed block with a
\* variables_get_typed block as its argument and has raised.
C18_Witness ==
  /\ last.op = "updateTypeInference" /\ last.err = "TypeError"
  /\ type[last.block] = "pair_first_typed"
  /\ type[targetBlock(Cur, <<last.block, "FIRST">>)] = "variables_get_typed"

\* Inference has met mismatching constructors and has returned.
MismatchReturned ==
  last.op = "updateTypeInference" /\ last.err = "none" /\ last.result

\* The type variables v and w resolve to the same representative under tv.
Merged(tv, v, w) ==
  resolve(tv, TVar(v[1], v[2])) = resolve(tv, TVar(w[1], w[2]))

\* Unifying either of v and w with the concrete type k, as receiver or as
\* argument, makes both resolve to k.
BindingBinds(tv, v, w, k) ==
  \A x \in {v, w} :
    /\ unify(tv, TVar(x[1], x[2]), k).ok
    /\ resolve(unify(tv, TVar(x[1], x[2]), k).tv, TVar(v[1], v[2])) = k
    /\ resolve(unify(tv, TVar(x[1], x[2]), k).tv, TVar(w[1], w[2])) = k
    /\ unify(tv, k, TVar(x[1], x[2])).ok
    /\ resolve(unify(tv, k, TVar(x[1], x[2])).tv, TVar(v[1], v[2])) = k
    /\ resolve(unify(tv, k, TVar(x[1], x[2])).tv, TVar(w[1], w[2])) = k

\* Unifying two unbound type variables merges them, and binding either to a
\* concrete type afterwards binds both.
UnifyMerges ==
  \A v, w \in UnifyVars :
    v # w /\ resolve(tval, TVar(v[1], v[2])) = TVar(v[1], v[2])
          /\ resolve(tval, TVar(w[1], w[2])) = TVar(w[1], w[2]) =>
      /\ unify(tval, TVar(v[1], v[2]), TVar(w[1], w[2])).ok
      /\ Merged(unify(tval, TVar(v[1], v[2]), TVar(w[1], w[2])).tv, v, w)
      /\ \A k \in {INT, BOOL} :
           BindingBinds(unify(tval, TVar(v[1], v[2]), TVar(w[1], w[2])).tv,
                        v, w, k)

\* A unify call un-merges nothing: two type variables that resolve to the
\* same representative still do after the call, and a variable that
\* resolves to a concrete type still resolves to it.
UnifyKeeps ==
  last'.op = "unify" =>
    \A v, w \in UnifyVars :
      /\ Merged(tval, v, w) => Merged(tval', v, w)
      /\ resolve(tval, TVar(v[1], v[2])) \in {INT, BOOL} =>
           resolve(tval', TVar(v[1], v[2])) = resolve(tval, TVar(v[1], v[2]))

\* C19: unifying two unbound type expressions and then resolving either one
\* gives the same representative, binding either of them afterwards to a
\* concrete type makes both resolve to that type, and this stays true
\* under further unify calls, which only add equivalences.
C19_UnifyOnlyMerges == []UnifyMerges /\ [][UnifyKeeps]_vars

\* Two type variables were unbound, have been unified and then bound to
\* Int by a unify call: one is linked to the other, and both resolve to
\* Int.
C19_Witness ==
  \E v, w \in UnifyVars :
    /\ v # w
    /\ last.op = "unify" /\ last.result
    /\ tval[v] = TVar(w[1], w[2])
    /\ tval[w] = INT
    /\ resolve(tval, TVar(v[1], v[2])) = INT

\* Inference from p, after l's output has been connected to p's Input A
\* giving the graph s, leaves l's output and p's Input A resolving to Int;
\* it ends without exception or mismatch when p has no other operand.
InfersInt(s, l, p, r) ==
  /\ s.err = "none"
  /\ targetBlock(s, <<p, "A">>) = l
  /\ targetBlock(s, <<p, "B">>) = Nil => r.err = "none" /\ ~r.mismatch
  /\ resolve(r.tv, outputTypeExpr(Cur, l)) = INT
  /\ resolve(r.tv, inputTypeExpr(Cur, p, "A")) = INT

\* C20: for an int_typed block l and an int_arithmetic_typed block p whose
\* Input A is free, canConnect between l's output and p's Input A is true,
\* and after connecting them and running inference from p, with or without
\* the reset pass, l's output type expression and the type expression of
\* p's Input A both resolve to Int.
C20_IntIntoArithmetic ==
  \A l, p \in Blocks, opt_reset \in BOOLEAN :
    /\ Live(l) /\ type[l] = "int_typed"
    /\ Live(p) /\ type[p] = "int_arithmetic_typed"
    /\ ~isConnected(Cur, <<l, "OUT">>) /\ ~isConnected(Cur, <<p, "A">>)
    => /\ canConnect(Cur, <<l, "OUT">>, <<p, "A">>)
       /\ InfersInt(connect(Cur, <<l, "OUT">>, <<p, "A">>), l, p,
                    updateTypeInference(
                      connect(Cur, <<l, "OUT">>, <<p, "A">>), tval, p,
                      opt_reset))

\* An int_typed block has been connected to Input A of an
\* int_arithmetic_typed block, inference has just run from the latter, and
\* both sockets resolve to Int.
C20_Witness ==
  \E l, p \in Blocks :
    /\ type[l] = "int_typed" /\ type[p] = "int_arithmetic_typed"
    /\ targetConnection[<<l, "OUT">>] = <<p, "A">>
    /\ last.op = "updateTypeInference" /\ last.block = p
    /\ last.err = "none" /\ ~last.result
    /\ resolve(tval, outputTypeExpr(Cur, l)) = INT
    /\ resolve(tval, inputTypeExpr(Cur, p, "A")) = INT

\* ------------------------------------------------------------------------
\* Shadowing
\* ------------------------------------------------------------------------
\* Blocks p and q declare the same name, q sits in the scope of p, and the
\* Reference x of that name is plugged into the scope slot of q.
Shadowed(p, q, x) ==
  /\ Live(p) /\ Live(q) /\ Live(x)
  /\ hasGetVisibleVariables(type[p]) /\ hasGetVisibleVariables(type[q])
  /\ ownsReference(Cur, x)
  /\ varName[p] = varName[q] /\ varName[x] = varName[q]
  /\ Under(ScopeOf(p), q)
  /\ targetConnection[<<x, "OUT">>] = ScopeOf(q)

\* C30: when two enclosing blocks declare the same name, the nearest one
\* wins: allVisibleVariables at the inner block's scope slot maps the name
\* to the inner block, and a binding resolveReference started at the outer
\* block, at the inner block or at the Reference itself binds the Reference
\* to the inner block's Value.
C30_NearestDeclarationWins ==
  \A p, q, x \in Blocks :
    Shadowed(p, q, x) =>
      /\ allVisibleVariables(Cur, q, ScopeOf(q), TRUE, MaxBlocks).env[varName[x]] = q
      /\ \A root \in {p, q} :
           resolveReference(
             Cur, root,
             IF parentBlock_[root] = Nil THEN NoConn
             ELSE targetConnection[<<root, "OUT">>], TRUE).s.boundValue[x] = q
      /\ resolveReference(Cur, x, ScopeOf(q), TRUE).s.boundValue[x] = q
      /\ resolveReference(Cur, x, ScopeOf(q), TRUE).result

\* A binding resolveReference has run on a tree in which a Reference sits
\* in the scope of two declarations of its name, and the Reference is bound
\* to the inner one.
C30_Witness ==
  /\ last.op = "resolveReference" /\ last.flag /\ last.result
  /\ \E p, q, x \in Blocks :
       /\ Shadowed(p, q, x)
       /\ parentBlock_[p] = Nil
       /\ boundValue[x] = q

\* ------------------------------------------------------------------------
\* setParent on a connected block
\* ------------------------------------------------------------------------
\* The graph with the connection between c and its target taken apart, as
\* disconnect leaves it when it calls setParent.
Detached(s, c) ==
  [s EXCEPT !.targetConnection =
              [x \in Conns |-> IF x \in {c, s.targetConnection[c]} THEN NoConn
                               ELSE @[x]]]

\* setParent has raised one of its two errors and has not re-parented b.
RefusedToReparent(s, b, newParent) ==
  /\ s.err \in {"Still connected to previous block.",
                "Still connected to parent block."}
  /\ s.parentBlock_[b] = parentBlock_[b]
  /\ s.topBlocks = topBlocks
  /\ newParent # Nil => s.childBlocks_[newParent] = childBlocks_[newParent]

\* setParent has made newParent the parent of b.
Reparented(s, b, newParent) ==
  /\ s.err = "none"
  /\ s.parentBlock_[b] = newParent
  /\ b \notin Range(s.childBlocks_[parentBlock_[b]])
  /\ IF newParent = Nil THEN b \in s.topBlocks
     ELSE b \in Range(s.childBlocks_[newParent])

\* C25: setParent(newParent) on a block that has a parent other than
\* newParent raises while the block's output or previous connection is
\* still connected and leaves the block's parent as it was; once that
\* connection has been disconnected the same call succeeds.
C25_SetParentWhileConnected ==
  \A b \in Blocks, newParent \in Blocks \cup {Nil} :
    /\ Live(b) /\ parentBlock_[b] # Nil
    /\ newParent # parentBlock_[b] /\ newParent # b
    /\ newParent # Nil => Live(newParent)
    => /\ isConnected(Cur, superiorConnection(b))
       /\ RefusedToReparent(setParent(Cur, b, newParent), b, newParent)
       /\ Reparented(setParent(Detached(Cur, superiorConnection(b)), b, newParent),
                     b, newParent)

\* A disconnect has just called setParent(null) on a block whose connection
\* it had taken apart, while another block is still connected to its
\* parent and a third block could be named as its new parent.
C25_Witness ==
  /\ last.op = "disconnect" /\ last.err = "none"
  /\ \E b, c \in Blocks :
       /\ b # c /\ Live(b) /\ Live(c)
       /\ parentBlock_[b] # Nil /\ parentBlock_[b] # c
       /\ isConnected(Cur, superiorConnection(b))
       /\ parentBlock_[c] = Nil
       /\ setParent(Cur, b, c).err # "none"

\* ------------------------------------------------------------------------
\* The order of the steps of dispose
\* ------------------------------------------------------------------------
\* The graph at the points of dispose(healStack) on block b: after the
\* unplug, after the loop over the children, after the Inputs, after the
\* remaining connections, and after the Values.
AfterUnplug(b, healStack) == unplug(Cur, b, healStack)

AfterChildren(b, healStack) ==
  disposeAllChildren(
    removeFromWorkspace(
      eventsDisable(fireDelete(AfterUnplug(b, healStack), b)), b), b)

AfterInputs(b, healStack) ==
  clearInputList(disposeInputs(AfterChildren(b, healStack), b, 1), b)

AfterConnections(b, healStack) ==
  disposeRemainingConnections(AfterInputs(b, healStack), b)

AfterValues(b, healStack) == disposeValues(AfterConnections(b, healStack), b)

\* The connections of block b that are registered in graph s.
Registered(s, b) == {c \in s.connectionDB : getSourceBlock(c) = b}

\* The connections of the Inputs of block b.
InputConnections(b) ==
  {c \in Registered(Cur, b) : c[2] \notin {"OUT", "PREV", "NEXT"}}

\* C27: the steps of one dispose call come in this order: the block is
\* unplugged while its children, Inputs, connections and Value are all
\* still there; the children are disposed while its Inputs, connections and
\* Value are still there; the Inputs are disposed while the output,
\* previous and next connections and the Value are still there; these
\* connections are disposed while the Value is still there; the Value is
\* disposed last; and no connection is disposed while it has a target, for
\* the call ends without the error that Connection.dispose raises.
C27_DisposeOrder ==
  \A b \in Blocks, healStack \in BOOLEAN :
    Live(b) =>
      /\ AfterUnplug(b, healStack).parentBlock_[b] = Nil
      /\ AfterUnplug(b, healStack).workspace
           = workspace
      /\ Registered(AfterUnplug(b, healStack), b) = Registered(Cur, b)
      /\ \A x \in Range(AfterUnplug(b, healStack).childBlocks_[b]) :
           ~AfterChildren(b, healStack).workspace[x]
      /\ AfterChildren(b, healStack).childBlocks_[b] = <<>>
      /\ AfterChildren(b, healStack).inputList[b] = inputList[b]
      /\ Registered(AfterChildren(b, healStack), b) = Registered(Cur, b)
      /\ AfterInputs(b, healStack).inputList[b] = <<>>
      /\ Registered(AfterInputs(b, healStack), b)
           = Registered(Cur, b) \ InputConnections(b)
      /\ Registered(AfterConnections(b, healStack), b) = {}
      /\ b \in values => b \in AfterConnections(b, healStack).values
      /\ b \notin AfterValues(b, healStack).values
      /\ AfterValues(b, healStack).err = "none"
      /\ dispose(Cur, b, healStack) = eventsEnable(AfterValues(b, healStack))

\* One dispose call has just disposed a tree of three blocks, one of which
\* declared a variable, so every step of the call has had something to do.
C27_Witness ==
  /\ last.op = "dispose" /\ last.err = "none"
  /\ last.count = MaxBlocks
  /\ \A b \in 1 .. MaxBlocks : Disposed(b)
  /\ \E b \in Blocks : hasGetVisibleVariables(type[b])
  /\ connectionDB = {} /\ values = {}

\* ------------------------------------------------------------------------
\* Reordering Inputs
\* ------------------------------------------------------------------------
\* inputIndex names an Input, refIndex an Input or the end, and they differ.
ValidIndices(q, inputIndex, refIndex) ==
  /\ 0 <= inputIndex /\ inputIndex < Len(q)
  /\ 0 <= refIndex /\ refIndex <= Len(q)
  /\ inputIndex # refIndex

\* The indices 0 .. n-1 in order.
Positions(n) == [k \in 1 .. n |-> k - 1]

\* m, a sequence of old indices, has index i right before index r, or at
\* the end when r is the length, and the other indices in ascending order.
PlacedBefore(m, i, r) ==
  /\ \E k \in DOMAIN m :
       /\ m[k] = i
       /\ IF r = Len(m) THEN k = Len(m) ELSE k < Len(m) /\ m[k + 1] = r
  /\ \A j, k \in DOMAIN m : j < k /\ m[j] # i /\ m[k] # i => m[j] < m[k]

\* q2 is q with the Input at index i moved to the end.
MovedToEnd(q, q2, i) == q2 = SpliceRemove(q, i) \o <<InputAt(q, i)>>

\* C29: moveNumberedInputBefore(i, r) with valid arguments places the moved
\* Input immediately before the Input that was at index r (at the end when
\* r is the length) and keeps the relative order of the other Inputs;
\* moveNumberedInputBefore(i, i+1) leaves the sequence as it was;
\* moveInputBefore(name, null) moves the Input of that name to the end, and
\* moveInputBefore(name, name) does nothing.
C29_MoveInputPlacement ==
  \A b \in Blocks :
    Live(b) =>
      /\ \A i \in IndexArgs(b), r \in IndexArgs(b) :
           ValidIndices(inputList[b], i, r) =>
             /\ ~Thrown(moveNumberedInputBefore(Cur, b, i, r))
             /\ DOMAIN moveNumberedInputBefore(Cur, b, i, r).inputList[b]
                  = DOMAIN inputList[b]
             /\ \A k \in DOMAIN inputList[b] :
                  moveNumberedInputBefore(Cur, b, i, r).inputList[b][k]
                    = InputAt(inputList[b],
                              MoveSplices(Positions(Len(inputList[b])), i, r)[k])
             /\ PlacedBefore(MoveSplices(Positions(Len(inputList[b])), i, r),
                             i, r)
             /\ r = i + 1 => moveNumberedInputBefore(Cur, b, i, r) = Cur
      /\ \A name \in NameArgs(b) :
           /\ getInput(Cur, b, name) # -1 =>
                /\ ~Thrown(moveInputBefore(Cur, b, name, NoName))
                /\ MovedToEnd(inputList[b],
                              moveInputBefore(Cur, b, name, NoName).inputList[b],
                              getInput(Cur, b, name))
           /\ moveInputBefore(Cur, b, name, name) = Cur

\* A call of moveNumberedInputBefore has just moved the appended third
\* Input of a block between the two the initializer appended.
C29_Witness ==
  /\ last.op = "moveNumberedInputBefore" /\ last.err = "none"
  /\ \E b \in Blocks : Live(b) /\ inputList[b] = <<"B", "dummy A", "A">>

\* q2 holds the Inputs of q, each as often as q does.
Permutation(q, q2) ==
  /\ Len(q) = Len(q2)
  /\ \A x \in Range(q) \cup Range(q2) :
       Cardinality({k \in DOMAIN q : q[k] = x})
         = Cardinality({k \in DOMAIN q2 : q2[k] = x})

\* s differs from the current graph in the order of the Inputs of b alone.
OnlyReordered(s, b) ==
  /\ Permutation(inputList[b], s.inputList[b])
  /\ s = [Cur EXCEPT !.inputList[b] = s.inputList[b]]
  /\ \A x \in Range(s.inputList[b]) :
       x \notin DummyInputs \cup {Undefined} =>
         /\ inputConnection(b, x) \in s.connectionDB
         /\ s.targetConnection[inputConnection(b, x)]
              = targetConnection[inputConnection(b, x)]

\* C22: moveInputBefore and moveNumberedInputBefore called with valid
\* arguments leave the Input sequence a permutation of what it was and
\* change nothing else: every Input keeps its connection and the target of
\* that connection, every block its parent and child list, and no type
\* expression or Reference binding changes.
C22_MoveInputFrame ==
  \A b \in Blocks :
    Live(b) =>
      /\ \A i \in IndexArgs(b), r \in IndexArgs(b) :
           ValidIndices(inputList[b], i, r) =>
             OnlyReordered(moveNumberedInputBefore(Cur, b, i, r), b)
      /\ \A name \in NameArgs(b), refName \in NameArgs(b) \cup {NoName} :
           /\ getInput(Cur, b, name) # -1
           /\ refName # NoName => getInput(Cur, b, refName) # -1
           => OnlyReordered(moveInputBefore(Cur, b, name, refName), b)

\* A call of moveInputBefore has just put Input B, which has a block
\* connected, before Input A.
C22_Witness ==
  /\ last.op = "moveInputBefore" /\ last.err = "none"
  /\ \E b \in Blocks :
       /\ Live(b) /\ inputList[b] = <<"B", "A">>
       /\ targetConnection[<<b, "B">>] # NoConn

\* C23: moveNumberedInputBefore(inputIndex, refIndex) on a block with n
\* Inputs fails with an assertion, before the Input sequence is modified,
\* for every out-of-range argument: inputIndex outside 0..n-1, refIndex
\* outside 0..n (negative values included in both), and inputIndex equal
\* to refIndex.
C23_OutOfRangeIndicesFail ==
  \A b \in Blocks :
    Live(b) =>
      \A i \in IndexArgs(b), r \in IndexArgs(b) :
        ~ValidIndices(inputList[b], i, r) =>
          /\ Thrown(moveNumberedInputBefore(Cur, b, i, r))
          /\ moveNumberedInputBefore(Cur, b, i, r).inputList = inputList

\* The part of C23 the assertions do enforce: an inputIndex at or beyond
\* the length, a refIndex beyond the length, and equal indices.
C23_UpperBoundsChecked ==
  \A b \in Blocks :
    Live(b) =>
      \A i \in IndexArgs(b), r \in IndexArgs(b) :
        i = r \/ i >= Len(inputList[b]) \/ r > Len(inputList[b]) =>
          /\ Thrown(moveNumberedInputBefore(Cur, b, i, r))
          /\ moveNumberedInputBefore(Cur, b, i, r).inputList = inputList

\* A call with a negative index has put something that is not an Input in
\* the Input sequence.
C23_Witness ==
  /\ last.op = "moveNumberedInputBefore" /\ last.err = "none"
  /\ \E b \in Blocks : Live(b) /\ Undefined \in Range(inputList[b])

\* C24: appending an Input under the name of an Input the block already has
\* is an assertion failure, so that in every reachable state the named
\* Inputs of a block have pairwise distinct names.
C24_DistinctInputNames ==
  \A b \in Blocks :
    Live(b) =>
      \A j, k \in DOMAIN inputList[b] :
        /\ j # k
        /\ inputList[b][j] # Undefined /\ inputList[b][k] # Undefined
        => InputName(inputList[b][j]) # InputName(inputList[b][k])

\* ------------------------------------------------------------------------
\* A Boolean block does not go into an Int socket
\* ------------------------------------------------------------------------
\* c is the Output of a logic_boolean_typed block and d the connection of an
\* Input of an int_arithmetic_typed block, both registered.
BoolIntoInt(c, d) ==
  /\ c \in connectionDB /\ d \in connectionDB
  /\ type[getSourceBlock(c)] = "logic_boolean_typed"
  /\ c = outputConnection(getSourceBlock(c))
  /\ type[getSourceBlock(d)] = "int_arithmetic_typed"
  /\ connType(d) = "INPUT_VALUE"

\* C21: connecting the Output of a logic_boolean_typed block (nominal check
\* Boolean) to an Input of an int_arithmetic_typed block (nominal check Int)
\* is refused: canConnect is false, and after the attempt, made from either
\* side, every parent, child list, connection target and the top-level set
\* are as before.
C21_BoolIntoIntRefused ==
  \A c \in Conns, d \in Conns :
    BoolIntoInt(c, d) =>
      /\ ~canConnect(Cur, c, d)
      /\ ~canConnect(Cur, d, c)
      /\ connect(Cur, c, d) = Cur
      /\ connect(Cur, d, c) = Cur

\* The Output of a Boolean block has just been offered to an Input of an
\* arithmetic block that already holds another block in its other Input,
\* and canConnect said no.
C21_Witness ==
  /\ last.op = "connect" /\ ~last.result /\ last.err = "none"
  /\ last.block # Nil /\ last.nextBlock # Nil
  /\ type[last.block] = "logic_boolean_typed"
  /\ type[last.nextBlock] = "int_arithmetic_typed"
  /\ parentBlock_[last.block] = Nil /\ last.block \in topBlocks
  /\ childBlocks_[last.nextBlock] # <<>>

\* ------------------------------------------------------------------------
\* The walk of replaceTypeExprWith
\* ------------------------------------------------------------------------
\* The block connected to the Input at index i of block b, Nil when there is
\* no such Input, when it has no connection or when nothing is connected.
ChildAt(b, i) ==
  IF InputAt(inputList[b], i) \in DummyInputs \cup {Undefined} THEN Nil
  ELSE targetBlock(Cur, inputConnection(b, InputAt(inputList[b], i)))

\* The pairs one step below the pair of x and y: none when the type tags
\* differ, else the children connected at the same index of both.
PairsBelow(x, y) ==
  IF type[x] # type[y] THEN {}
  ELSE {<<ChildAt(x, i), ChildAt(y, i)>> :
          i \in {j \in 0 .. (Len(inputList[x]) - 1) :
                   ChildAt(x, j) # Nil /\ ChildAt(y, j) # Nil}}

RECURSIVE PairsWithin(_, _)
PairsWithin(P, n) ==
  IF n = 0 THEN P
  ELSE PairsWithin(P \cup UNION {PairsBelow(p[1], p[2]) : p \in P}, n - 1)

\* The pairs reachable from the roots x and y.
PairsFrom(x, y) == PairsWithin({<<x, y>>}, MaxBlocks)

\* The Inputs of x that have a connection carry, index by index, the names
\* of the Inputs of y.
SameInputNames(x, y) ==
  \A i \in 0 .. (Len(inputList[x]) - 1) :
    InputAt(inputList[x], i) \notin DummyInputs =>
      /\ InputAt(inputList[y], i) \notin DummyInputs \cup {Undefined}
      /\ InputName(InputAt(inputList[x], i)) = InputName(InputAt(inputList[y], i))

\* Every pair of equal type tags reachable from x and y has the same Input
\* names.
SameShape(x, y) ==
  \A p \in PairsFrom(x, y) : type[p[1]] = type[p[2]] => SameInputNames(p[1], p[2])

\* The connections of block b that carry a type expression: its Output and
\* those of its Inputs.
TypedConnections(b) ==
  {c \in connectionDB : getSourceBlock(c) = b /\ c[2] \notin {"PREV", "NEXT"}}

\* The walk about to visit nothing.
Idle == [Walk(typeExprAt, Nil, Nil) EXCEPT !.stack = <<>>]

\* One visit of the pair of x and y: with equal tags every typed connection
\* of x gets the type expression of the connection of y of the same name,
\* the connections of other blocks keep theirs, and the pairs below are
\* pushed; with different tags nothing is replaced and nothing is pushed.
VisitReplaces(x, y) ==
  \E v \in {visitPair(Cur, Idle, x, y)} :
    IF type[x] # type[y] THEN v = Idle
    ELSE /\ v.err = "none"
         /\ \A c \in TypedConnections(x) : v.at[c] = typeExprAt[<<y, c[2]>>]
         /\ \A c \in Conns :
              getSourceBlock(c) \notin {x, y} => v.at[c] = typeExprAt[c]
         /\ Range(v.stack) = PairsBelow(x, y)

\* The walk from x and y ends without an exception, having visited exactly
\* the pairs reachable from them, each once.
WalkVisits(x, y) ==
  \E w \in {replaceTypeExprWalk(Cur, typeExprAt, x, y)} :
    /\ w.err = "none"
    /\ w.stack = <<>>
    /\ Range(w.visited) = PairsFrom(x, y)
    /\ Len(w.visited) = Cardinality(Range(w.visited))

\* C28 as stated: replaceTypeExprWith visits exactly the pairs reachable
\* from the two roots through Inputs at the same index that both have a
\* connected child; for each visited pair with equal type tags it replaces
\* the Output type expression and every Input connection's type expression,
\* for a pair with different tags it replaces nothing and does not descend,
\* and the walk terminates on every finite pair of trees.
C28_WalkVisitsAndReplaces ==
  \A x \in Blocks, y \in Blocks :
    Live(x) /\ Live(y) /\ x # y =>
      /\ WalkVisits(x, y)
      /\ VisitReplaces(x, y)

\* C28 as amended: the same, for trees in which the blocks of every visited
\* pair of equal type tags carry the same Input names index by index; where
\* they do not, the walk ends in an exception.
C28_WalkOfSameShape ==
  \A x \in Blocks, y \in Blocks :
    Live(x) /\ Live(y) /\ x # y =>
      /\ IF SameShape(x, y) THEN WalkVisits(x, y)
         ELSE replaceTypeExprWalk(Cur, typeExprAt, x, y).err # "none"
      /\ SameInputNames(x, y) => VisitReplaces(x, y)

\* A call has just walked two trees of two blocks each: the roots, of the
\* same type, have exchanged the type expressions of their connections, and
\* the blocks in their Inputs A, of different types, have been visited and
\* have kept theirs.
C28_Witness ==
  /\ last.op = "replaceTypeExprWith" /\ last.err = "none"
  /\ last.count = 2
  /\ \E p \in topBlocks, q \in topBlocks :
       /\ p # q
       /\ type[p] = "int_arithmetic_typed" /\ type[q] = "int_arithmetic_typed"
       /\ typeExprAt[<<p, "A">>] = <<q, "A">>
       /\ typeExprAt[<<p, "OUT">>] = <<q, "OUT">>
       /\ targetBlock(Cur, <<p, "A">>) # Nil /\ targetBlock(Cur, <<q, "A">>) # Nil
       /\ type[targetBlock(Cur, <<p, "A">>)] # type[targetBlock(Cur, <<q, "A">>)]
       /\ typeExprAt[<<targetBlock(Cur, <<p, "A">>), "OUT">>]
            = <<targetBlock(Cur, <<p, "A">>), "OUT">>

\* C26: after this.replaceTypeExprWith(other) has replaced the type
\* expressions, inference is triggered on the block passed as other, the
\* root of the old tree, for every shape of the two trees, those whose
\* blocks have connected children that are walked as further pairs included.
\* Stated for the roots of two separate trees.
C26_InferenceOnOldRoot ==
  \A x \in topBlocks, y \in topBlocks :
    x # y /\ replaceTypeExprWalk(Cur, typeExprAt, x, y).err = "none" =>
      replaceTypeExprWalk(Cur, typeExprAt, x, y).oldBlock = y

\* What the code does: inference is triggered on the old block of the pair
\* visited last, which is the root passed as other only when the roots have
\* no pair of children to walk.
C26_InferenceOnLastVisited ==
  \A x \in topBlocks, y \in topBlocks :
    x # y =>
      \E w \in {replaceTypeExprWalk(Cur, typeExprAt, x, y)} :
        w.err = "none" =>
          /\ w.oldBlock = w.visited[Len(w.visited)][2]
          /\ w.oldBlock = y <=> PairsBelow(x, y) = {}

\* A call has just triggered inference on a block nested in the old tree
\* instead of the root of that tree.
C26_Witness ==
  /\ last.op = "replaceTypeExprWith" /\ last.err = "none"
  /\ last.block # last.nextBlock
  /\ parentBlock_[last.block] = last.nextBlock

\* ------------------------------------------------------------------------
\* The parent/child relation after setParent has raised
\* ------------------------------------------------------------------------
\* setParent has raised one of its two still-connected errors.
StillConnected(s) ==
  s.err \in {"Still connected to previous block.",
             "Still connected to parent block."}

\* C34: when setParent raises its still-connected error the parent/child
\* relation is as before the call: the block is still listed in its old
\* parent's child list and still names that parent.
C34_RaiseKeepsRelation ==
  \A b \in Blocks, newParent \in Blocks \cup {Nil} :
    /\ Live(b) /\ (newParent # Nil => Live(newParent)) /\ newParent # b
    /\ StillConnected(setParent(Cur, b, newParent))
    => /\ setParent(Cur, b, newParent).parentBlock_ = parentBlock_
       /\ setParent(Cur, b, newParent).childBlocks_ = childBlocks_

\* What the code does instead: when setParent raises, the block still names
\* its old parent, but the old parent's child list has lost the block; the
\* other child lists are as before.
C34_RaiseDropsChild ==
  \A b \in Blocks, newParent \in Blocks \cup {Nil} :
    /\ Live(b) /\ (newParent # Nil => Live(newParent)) /\ newParent # b
    /\ StillConnected(setParent(Cur, b, newParent))
    => /\ setParent(Cur, b, newParent).parentBlock_ = parentBlock_
       /\ parentBlock_[b] # Nil
       /\ b \in Range(childBlocks_[parentBlock_[b]])
       /\ setParent(Cur, b, newParent).childBlocks_ =
            [childBlocks_ EXCEPT ![parentBlock_[b]] = ArrayRemove(@, b)]

\* A connected block whose setParent(null) raises.
C34_Witness ==
  \E b \in Blocks :
    /\ Live(b) /\ parentBlock_[b] # Nil
    /\ StillConnected(setParent(Cur, b, Nil))
    /\ b \notin Range(setParent(Cur, b, Nil).childBlocks_[parentBlock_[b]])

\* ------------------------------------------------------------------------
\* The parent relation and getRootBlock
\* ------------------------------------------------------------------------
\* The n-th block up the parent chain of b (Nil above the top).
RECURSIVE ParentAt(_, _)
ParentAt(b, n) ==
  IF n = 0 \/ b = Nil THEN b ELSE ParentAt(parentBlock_[b], n - 1)

\* b is its own ancestor.
OnCycle(b) == \E n \in 1 .. (MaxBlocks + 1) : ParentAt(b, n) = b

\* C33: in every state reached by connects that pass canConnect,
\* disconnect, unplug and dispose the parent relation has no cycle, and
\* getRootBlock ends on every block with an ancestor-or-self that has no
\* parent.
C33_ParentAcyclic ==
  \A b \in Blocks :
    Constructed(b)
    => /\ ~OnCycle(b)
       /\ getRootBlock(Cur, b) # Diverges
       /\ parentBlock_[getRootBlock(Cur, b)] = Nil
       /\ \E n \in 0 .. MaxBlocks : ParentAt(b, n) = getRootBlock(Cur, b)

\* What holds instead: getRootBlock never returns exactly on the blocks
\* whose parent chain runs into a cycle, and on every other block it
\* returns an ancestor-or-self that has no parent.
C33_RootUnlessCycle ==
  \A b \in Blocks :
    Constructed(b)
    => IF \E n \in 0 .. MaxBlocks : ParentAt(b, n) # Nil /\ OnCycle(ParentAt(b, n))
         THEN getRootBlock(Cur, b) = Diverges
         ELSE /\ getRootBlock(Cur, b) # Diverges
              /\ parentBlock_[getRootBlock(Cur, b)] = Nil
              /\ \E n \in 0 .. MaxBlocks : ParentAt(b, n) = getRootBlock(Cur, b)

\* Two connects have made two blocks each other's parent, and a third
\* block sits in its own tree.
C33_Witness ==
  /\ last.op = "connect" /\ last.err = "none"
  /\ \E a, b, c \in Blocks :
       /\ a # b /\ parentBlock_[a] = b /\ parentBlock_[b] = a
       /\ Live(c) /\ c \notin {a, b} /\ getRootBlock(Cur, c) = c
       /\ getRootBlock(Cur, a) = Diverges

\* ------------------------------------------------------------------------
\* Scope queries on trees with statement connections
\* ------------------------------------------------------------------------
\* The connections of live block b that a scope query can be asked about.
OwnInputs(b) ==
  {c \in connectionDB : getSourceBlock(c) = b /\ ~isSuperior(c)}

\* C32: resolveReference and allVisibleVariables return a result without
\* raising on every block tree, the trees in which a block is attached to
\* its parent through a previous/next or statement-input connection
\* included.
C32_ScopeQueriesNeverRaise ==
  \A b \in Blocks :
    Live(b)
    => /\ \A opt_bind \in BOOLEAN :
            ~Thrown(resolveReference(Cur, b, NoConn, opt_bind).s)
       /\ \A conn \in OwnInputs(b) :
            allVisibleVariables(Cur, b, conn, TRUE, MaxBlocks).err = "none"

\* Block b has no output connection and is attached to a parent.
AttachedAsStatement(b) ==
  parentBlock_[b] # Nil /\ outputConnection(b) = NoConn

\* What holds instead on trees without References: resolveReference raises
\* a TypeError exactly when a block below its root is attached as a
\* statement, and allVisibleVariables exactly when the block asked or one
\* of its ancestors is.
C32_RaiseOnStatementChild ==
  \A b \in Blocks :
    Live(b)
    => /\ \A opt_bind \in BOOLEAN :
            resolveReference(Cur, b, NoConn, opt_bind).s.err =
              IF \E x \in getDescendants(Cur, b) \ {b} : AttachedAsStatement(x)
                THEN "TypeError" ELSE "none"
       /\ \A conn \in OwnInputs(b) :
            allVisibleVariables(Cur, b, conn, TRUE, MaxBlocks).err =
              IF \E n \in 0 .. MaxBlocks :
                   ParentAt(b, n) # Nil /\ AttachedAsStatement(ParentAt(b, n))
                THEN "TypeError" ELSE "none"

\* A statement block has just been connected below another block.
C32_Witness ==
  /\ last.op = "connect" /\ last.err = "none"
  /\ \E b \in Blocks :
       /\ Live(b) /\ AttachedAsStatement(b)
       /\ Thrown(resolveReference(Cur, parentBlock_[b], NoConn, TRUE).s)
       /\ \E conn \in OwnInputs(b) :
            allVisibleVariables(Cur, b, conn, TRUE, MaxBlocks).err = "TypeError"

\* ------------------------------------------------------------------------
\* The feasibility check against the binding run
\* ------------------------------------------------------------------------
\* The call returned true (it did not raise).
ReturnsTrue(r) == r.result /\ ~Thrown(r.s)

\* C31: on every block tree and for every connection asked about,
\* resolveReference(conn, false) returns true if and only if
\* resolveReference(conn, true) on the same tree returns true.
C31_CheckPredictsBinding ==
  \A b \in Blocks, parentConnection \in connectionDB \cup {NoConn} :
    CanResolve(b, parentConnection)
    => (ReturnsTrue(resolveReference(Cur, b, parentConnection, FALSE))
          <=> ReturnsTrue(resolveReference(Cur, b, parentConnection, TRUE)))

\* Of two References one resolves at a connection of a third block and the
\* other does not, in both modes.
C31_Witness ==
  \E b, c \in Blocks :
    \E p \in connectionDB :
      /\ CanResolve(b, p) /\ CanResolve(c, p)
      /\ ownsReference(Cur, b) /\ ownsReference(Cur, c)
      /\ ReturnsTrue(resolveReference(Cur, b, p, FALSE))
      /\ ReturnsTrue(resolveReference(Cur, b, p, TRUE))
      /\ ~resolveReference(Cur, c, p, FALSE).result
      /\ ~resolveReference(Cur, c, p, TRUE).result

\* ------------------------------------------------------------------------
\* The workspace's identity table
\* ------------------------------------------------------------------------
\* The block the next constructor call makes.
NextBlock ==
  CHOOSE x \in Blocks : ~Constructed(x) /\ \A y \in Blocks : y < x => Constructed(y)

\* C35: in every reachable state the identity table maps each id in use to
\* one live block that carries this id, and every live block is entered
\* under its id, so that distinct live blocks have distinct ids; a
\* constructor call with an id in use takes a generated id that is not in
\* the table and so leaves the existing entry alone; dispose removes the
\* entries of the blocks it disposes and no other.
C35_IdentityTable ==
  /\ \A b \in Blocks : Live(b) => blockDB[id[b]] = b
  /\ \A i \in Ids : blockDB[i] # Nil => Live(blockDB[i]) /\ id[blockDB[i]] = i
  /\ (\E b \in 1 .. MaxBlocks : ~Constructed(b))
       => \A opt_id \in UserIds \cup {NoId} :
            /\ blockDB[newId(NextBlock, opt_id)] = Nil
            /\ opt_id # NoId /\ blockDB[opt_id] = Nil
                 => newId(NextBlock, opt_id) = opt_id
  /\ \A b \in Blocks, healStack \in BOOLEAN :
       Live(b)
       => /\ dispose(Cur, b, healStack).blockDB[id[b]] = Nil
          /\ \A i \in Ids :
               dispose(Cur, b, healStack).blockDB[i] =
                 IF blockDB[i] # Nil
                      /\ ~dispose(Cur, b, healStack).workspace[blockDB[i]]
                   THEN Nil ELSE blockDB[i]

\* A block created with an id in use lives next to the holder of that id,
\* under a generated id, and a third block that held the same id has been
\* disposed.
C35_Witness ==
  /\ last.op = "create" /\ last.flag
  /\ \E a, b, c \in Blocks :
       /\ Live(a) /\ Live(b) /\ Disposed(c)
       /\ id[a] \in UserIds /\ id[c] = id[a]
       /\ id[b] = genUid(b)
       /\ blockDB[id[a]] = a /\ blockDB[id[b]] = b

\* ------------------------------------------------------------------------
\* Notifications around dispose
\* ------------------------------------------------------------------------
\* C37: dispose leaves the nesting depth of Events.disable() as it found
\* it, whether it returns or raises while children, Inputs, connections or
\* Values are being disposed, the nested calls for descendants included.
C37_DisableNestingRestored ==
  \A b \in Blocks, healStack \in BOOLEAN :
    Constructed(b) => dispose(Cur, b, healStack).disabled_ = disabled_

\* The Input connections of block b that are still connected.
ConnectedInputs(b) ==
  {x \in connectionDB : getSourceBlock(x) = b /\ ~isSuperior(x) /\ isConnected(Cur, x)}

\* A dispose has raised inside the nested dispose of a child, with the
\* notifications disabled once by the caller: the child c has left the
\* workspace with an Input still connected, and the block b called first
\* has left it with its Inputs in place and none of them connected.
C37_Witness ==
  /\ last.op = "dispose" /\ last.err # "none" /\ last.count >= 2
  /\ disabled_ = 1
  /\ \E b, c \in Blocks :
       /\ b # c /\ Disposed(b) /\ Disposed(c)
       /\ inputList[b] # <<>> /\ ConnectedInputs(b) = {}
       /\ ConnectedInputs(c) # {}

\* C36: a dispose call on block X made while notifications are enabled
\* delivers one delete notification, for X; on delivery X has been
\* unplugged and no block has been disposed yet; the disposal of the
\* descendants delivers nothing.
C36_OneDeleteNotification ==
  \A b \in Blocks, healStack \in BOOLEAN :
    Live(b) /\ disabled_ = 0
    => \E s \in {dispose(Cur, b, healStack)} :
         /\ Len(s.delivered) = 1
         /\ s.delivered[1].block = b
         /\ s.delivered[1].parentBlock_[b] = Nil
         /\ \A c \in {outputConnection(b), previousConnection(b)} \ {NoConn} :
              s.delivered[1].targetConnection[c] = NoConn
         /\ s.delivered[1].workspace = workspace
         /\ s.fired = [fired EXCEPT ![b] = @ + 1]

\* A dispose made with notifications enabled has taken a connected block
\* and at least one descendant, and has delivered one notification.
C36_Witness ==
  /\ last.op = "dispose" /\ last.err = "none" /\ last.count >= 2
  /\ last.previousTarget # NoConn
  /\ \E b \in Blocks :
       /\ Disposed(b) /\ fired[b] = 1
       /\ \A x \in Blocks \ {b} : fired[x] = 0
       /\ \E x \in Blocks \ {b} : Disposed(x)

\* ------------------------------------------------------------------------
\* removeInput
\* ------------------------------------------------------------------------
\* The names removeInput is asked for: those of the Inputs an initializer
\* appends, and one that no Input of these blocks has.
RemovableNames == {"COND", "DO", "A"}

\* The sequence q without its element at index i (from 0).
Without(q, i) == [k \in 1 .. (Len(q) - 1) |-> IF k <= i THEN q[k] ELSE q[k + 1]]

\* The connection of the Input called name on block b, NoConn for a dummy.
ConnectionNamed(b, name) ==
  inputConnection(b, InputAt(inputList[b], getInput(Cur, b, name)))

\* The child connected at the Input called name of block b, or Nil.
ChildNamed(b, name) ==
  IF ConnectionNamed(b, name) = NoConn THEN Nil
  ELSE targetBlock(Cur, ConnectionNamed(b, name))

\* In s the Input called name is gone from block b: its connection is
\* disposed, the other Inputs are in their old order with their old
\* children, and no other block of the workspace has lost an Input.
InputRemoved(s, b, name) ==
  /\ s.err = "none"
  /\ s.inputList[b] = Without(inputList[b], getInput(Cur, b, name))
  /\ \A x \in Blocks \ {b} : s.workspace[x] => s.inputList[x] = inputList[x]
  /\ s.connectionDB \cap {c \in Conns : getSourceBlock(c) = b}
       = (connectionDB \cap {c \in Conns : getSourceBlock(c) = b})
           \ {ConnectionNamed(b, name)}
  /\ \A c \in Conns :
       getSourceBlock(c) = b /\ c # ConnectionNamed(b, name)
       => s.targetConnection[c] = targetConnection[c]
  /\ \A x \in Blocks :
       parentBlock_[x] = b /\ x # ChildNamed(b, name)
       => s.parentBlock_[x] = b /\ s.workspace[x]

\* In s block c and the blocks below it have left the workspace.
SubtreeDisposed(s, c) ==
  \A x \in getDescendants(Cur, c) : ~s.workspace[x] /\ s.blockDB[id[x]] = Nil

\* In s block c is a top-level block with the subtree it had.
SubtreeSurvives(s, c) ==
  /\ s.parentBlock_[c] = Nil /\ c \in s.topBlocks
  /\ \A c2 \in {outputConnection(c), previousConnection(c)} \ {NoConn} :
       s.targetConnection[c2] = NoConn
  /\ \A x \in getDescendants(Cur, c) :
       /\ s.workspace[x]
       /\ s.childBlocks_[x] = childBlocks_[x]
       /\ s.inputList[x] = inputList[x]
       /\ x # c => s.parentBlock_[x] = parentBlock_[x]
       /\ \A c2 \in Conns :
            getSourceBlock(c2) = x /\ ~(x = c /\ isSuperior(c2))
            => s.targetConnection[c2] = targetConnection[c2]

\* C38: removeInput(name) on an Input with a connected child disposes a
\* shadow child and unplugs any other child, which stays as a top-level
\* block with its subtree; in both cases the Input is disposed and removed
\* from the sequence while the other Inputs keep their order and their
\* children.  When no Input has the name the call fails with an assertion
\* unless opt_quiet is true, and the block is unchanged either way.
C38_RemoveInput ==
  \A b \in Blocks, name \in RemovableNames, opt_quiet \in BOOLEAN :
    Live(b)
    => \E s \in {removeInput(Cur, b, name, opt_quiet)} :
         IF getInput(Cur, b, name) = -1
           THEN /\ s.err = IF opt_quiet THEN "none" ELSE "AssertionError"
                /\ [s EXCEPT !.err = "none"] = Cur
           ELSE /\ InputRemoved(s, b, name)
                /\ ChildNamed(b, name) # Nil
                     => IF isShadow_[ChildNamed(b, name)]
                          THEN SubtreeDisposed(s, ChildNamed(b, name))
                          ELSE SubtreeSurvives(s, ChildNamed(b, name))

\* removeInput has just taken the second Input from a block and left the
\* child that was connected there as a top-level block; the shadow that was
\* connected at the first Input has been disposed with its Input.
C38_Witness ==
  /\ last.op = "removeInput" /\ last.err = "none"
  /\ last.nextBlock # Nil /\ ~last.result
  /\ Live(last.nextBlock) /\ last.nextBlock \in topBlocks
  /\ inputList[1] = <<>> /\ type[1] = "controls"
  /\ \E x \in Blocks : Disposed(x) /\ isShadow_[x]
====
